---- MODULE Spec2Model ----
(***************************************************************************)
(* Signal engine of the Wyrdness lamp (src/src/routes/+page.svelte and      *)
(* src/src/lib/signal/*.ts): per-tick aggregation of two bit streams,       *)
(* cumulative random walks, starting-point search, episodes, dominance      *)
(* arbitration and the frame-driven tick budget.                            *)
(*                                                                         *)
(* Numbers.  The code computes in IEEE doubles.  Here every real quantity   *)
(* is a fixed-point integer in thousandths ("milli"): a z-score of 2.449    *)
(* is 2449, a strength of 0.38 is 380, a time is in milliseconds and the    *)
(* tick budget is in thousandths of a tick.  Quotients are truncated to a   *)
(* whole number of thousandths.  Comparisons between two z-scores of a      *)
(* search are made exactly, on the integers the z-scores are quotients of.  *)
(*                                                                         *)
(* Scope.  step(dtMs) is modelled as the engine's entry point, called with  *)
(* any frame length, and split at its calls of signalTick (pc).  bootMs is  *)
(* kept up to 5000, beyond which the code only reads "boot is over".  The   *)
(* per-frame render smoothers at the end of step (pearsonSpin, rawRender,   *)
(* sigEnergyRender, hue, saturation, pulse) and the HUD statistics of       *)
(* signalTick (zA, zB, zAgree, pearsonR) feed the renderer only and are     *)
(* not part of the state below.                                             *)
(***************************************************************************)
EXTENDS Integers, Sequences, FiniteSets, TLC

\* ------------------------------------------------------------------ bounds
\* sampleBits is 2 * HalfBits (the code's default is 200; N / 2 must be whole)
HalfBits == 1
\* scaled-down MAX_LOOKBACK (120 in the code)
MAX_LOOKBACK == 4
\* scaled-down trim margin (the 20 of MAX_LOOKBACK + 20)
TRIM_MARGIN == 1
\* ticks after which the model stops issuing frames that tick
MaxTicks == 8
\* longest series of the search harness (entries)
MaxSeriesLen == 6
\* the mode key is pressed only while tickCount is at most this
ModeKeyMaxTicks == 0
\* the directional harness samples 2 * DirectionalHalfBits bits per tick
DirectionalHalfBits == 3

\* ------------------------------------------------------- program constants
MIN_SEGMENT_LEN == 3
EPISODE_Z_THRESHOLD == 1600
STRENGTH_Z_START == 1800
STRENGTH_Z_FULL == 3500
STICK_Z_START == 2200
STICK_Z_FULL == 3800
PEARSON_R_START == 180
PEARSON_R_FULL == 450
DOMINANCE_THRESHOLD == 150
MAX_CATCHUP == 8
BOOT_MS == 5000
BOOT_BUDGET_CAP == 2000
EPISODE_DECAY_THRESHOLD == 800
EPISODE_FLOOR == 700

sampleBits == 2 * HalfBits

Channels == {"correlated_high", "correlated_low", "anti_ab", "anti_ba", "stick", "pearson"}
\* Object.keys order of the raw record (insertion order of the literal)
ChannelOrder == <<"correlated_high", "correlated_low", "anti_ab", "anti_ba", "stick", "pearson">>

\* ------------------------------------------------------------- arithmetic
Abs(x) == IF x < 0 THEN -x ELSE x
Min(a, b) == IF a < b THEN a ELSE b
Max(a, b) == IF a > b THEN a ELSE b
Sign(x) == IF x < 0 THEN -1 ELSE IF x > 0 THEN 1 ELSE 0

RECURSIVE SqrtSearch(_, _, _)
SqrtSearch(x, lo, hi) ==
    IF lo >= hi THEN lo
    ELSE LET mid == (lo + hi + 1) \div 2
         IN IF mid * mid <= x THEN SqrtSearch(x, mid, hi)
            ELSE SqrtSearch(x, lo, mid - 1)

\* floor of the square root
ISqrt(x) == SqrtSearch(x, 0, 46340)

\* num / sqrt(den) in thousandths, rounded toward zero (|num| <= 46)
ZMilli(num, den) == Sign(num) * ISqrt((num * num * 1000000) \div den)

\* cumSum[i] ?? 0 on a 0-indexed array
At(arr, i) == IF i >= 0 /\ i < Len(arr) THEN arr[i + 1] ELSE 0

clamp01(v) == Min(1000, Max(0, v))

\* a faulty variant: the sign of z is kept
strengthFromZSigned(z, zStart, zFull) == clamp01(((z - zStart) * 1000) \div (zFull - zStart))

strengthFromZ(z, zStart, zFull) == clamp01(((Abs(z) - zStart) * 1000) \div (zFull - zStart))

\* ------------------------------------------------- starting-point search
\* A candidate or result: start index, z in thousandths, and the exact
\* quotient z = num / sqrt(den) it was computed from.
NoStart(currentIdx) == [startIdx |-> currentIdx, z |-> 0, num |-> 0, den |-> 1]

\* Math.abs(z) > Math.abs(bestZ), exactly
AbsGreater(c, best) == c.num * c.num * best.den > best.num * best.num * c.den

\* z > bestZ, exactly
Greater(c, best) ==
    \/ c.num > 0 /\ best.num <= 0
    \/ c.num > 0 /\ best.num > 0 /\ AbsGreater(c, best)
    \/ c.num <= 0 /\ best.num < 0 /\ AbsGreater(best, c)

\* a faulty variant: a candidate with an equal |z| replaces the best
RECURSIVE ScanStartLastWins(_, _, _, _, _, _)
ScanStartLastWins(cumSum, currentIdx, bitsPerTick, minLen, s, best) ==
    IF ~(s < currentIdx - minLen + 1) THEN best
    ELSE LET delta == At(cumSum, currentIdx) - At(cumSum, s)
             bitSpan == (currentIdx - s) * bitsPerTick
             c == [startIdx |-> s, z |-> ZMilli(delta, bitSpan),
                   num |-> delta, den |-> bitSpan]
         IN ScanStartLastWins(cumSum, currentIdx, bitsPerTick, minLen, s + 1,
                              IF ~AbsGreater(best, c) THEN c ELSE best)

RECURSIVE ScanStart(_, _, _, _, _, _)
ScanStart(cumSum, currentIdx, bitsPerTick, minLen, s, best) ==
    IF ~(s < currentIdx - minLen + 1) THEN best
    ELSE LET delta == At(cumSum, currentIdx) - At(cumSum, s)
             bitSpan == (currentIdx - s) * bitsPerTick
             c == [startIdx |-> s, z |-> ZMilli(delta, bitSpan),
                   num |-> delta, den |-> bitSpan]
         IN ScanStart(cumSum, currentIdx, bitsPerTick, minLen, s + 1,
                      IF AbsGreater(c, best) THEN c ELSE best)

\* a faulty variant: the scan starts one entry late and misses the oldest candidate
findOptimalStartingPointLateStart(cumSum, currentIdx, bitsPerTick, lookback, minLen) ==
    ScanStart(cumSum, currentIdx, bitsPerTick, minLen,
              Max(0, currentIdx - lookback + 1), NoStart(currentIdx))

findOptimalStartingPoint(cumSum, currentIdx, bitsPerTick, lookback, minLen) ==
    ScanStart(cumSum, currentIdx, bitsPerTick, minLen,
              Max(0, currentIdx - lookback), NoStart(currentIdx))

\* delta / sqrt(bitSpan / 4) = 2 * delta / sqrt(bitSpan)
RECURSIVE ScanAgreement(_, _, _, _, _, _)
ScanAgreement(cumSum, currentIdx, bitsPerTick, minLen, s, best) ==
    IF ~(s < currentIdx - minLen + 1) THEN best
    ELSE LET delta == At(cumSum, currentIdx) - At(cumSum, s)
             bitSpan == (currentIdx - s) * bitsPerTick
             c == [startIdx |-> s, z |-> ZMilli(2 * delta, bitSpan),
                   num |-> 2 * delta, den |-> bitSpan]
         IN ScanAgreement(cumSum, currentIdx, bitsPerTick, minLen, s + 1,
                          IF AbsGreater(c, best) THEN c ELSE best)

findOptimalStartingPointAgreement(cumSum, currentIdx, bitsPerTick, lookback, minLen) ==
    ScanAgreement(cumSum, currentIdx, bitsPerTick, minLen,
                  Max(0, currentIdx - lookback), NoStart(currentIdx))

\* the revision of the agreement search that compares z > bestZ
RECURSIVE ScanAgreementOneSided(_, _, _, _, _, _)
ScanAgreementOneSided(cumSum, currentIdx, bitsPerTick, minLen, s, best) ==
    IF ~(s < currentIdx - minLen + 1) THEN best
    ELSE LET delta == At(cumSum, currentIdx) - At(cumSum, s)
             bitSpan == (currentIdx - s) * bitsPerTick
             c == [startIdx |-> s, z |-> ZMilli(2 * delta, bitSpan),
                   num |-> 2 * delta, den |-> bitSpan]
         IN ScanAgreementOneSided(cumSum, currentIdx, bitsPerTick, minLen, s + 1,
                                  IF Greater(c, best) THEN c ELSE best)

findOptimalStartingPointAgreementOneSided(cumSum, currentIdx, bitsPerTick, lookback, minLen) ==
    ScanAgreementOneSided(cumSum, currentIdx, bitsPerTick, minLen,
                          Max(0, currentIdx - lookback), NoStart(currentIdx))

\* ----------------------------------------------------- tabulated functions
\* piecewise-linear reading of a table <<x, y>>, ascending in x
RECURSIVE Interp(_, _, _)
Interp(tab, x, i) ==
    IF i >= Len(tab) THEN tab[Len(tab)][2]
    ELSE IF x <= tab[i + 1][1]
         THEN tab[i][2] + ((x - tab[i][1]) * (tab[i + 1][2] - tab[i][2]))
                              \div (tab[i + 1][1] - tab[i][1])
         ELSE Interp(tab, x, i + 1)

\* 0.5 * Math.log((1 + r) / (1 - r)) for r in [0, 0.999]
FisherTable ==
    << <<0, 0>>, <<100, 100>>, <<200, 202>>, <<300, 309>>, <<400, 423>>,
       <<500, 549>>, <<600, 693>>, <<700, 867>>, <<800, 1098>>, <<850, 1256>>,
       <<900, 1472>>, <<950, 1831>>, <<970, 2092>>, <<980, 2297>>, <<990, 2646>>,
       <<995, 2994>>, <<999, 3800>> >>

\* 1 - Math.exp(-x)
ExpTable ==
    << <<0, 0>>, <<50, 48>>, <<100, 95>>, <<200, 181>>, <<300, 259>>, <<400, 329>>,
       <<500, 393>>, <<600, 451>>, <<700, 503>>, <<800, 550>>, <<900, 593>>,
       <<1000, 632>>, <<1250, 713>>, <<1500, 776>>, <<2000, 864>>, <<2500, 917>>,
       <<3000, 950>>, <<4000, 981>>, <<5000, 993>>, <<7000, 999>> >>

\* -Math.log10(twoSidedPFromZ(z)) for |z| in [0, 5]
SurprisalTable ==
    << <<0, 0>>, <<250, 95>>, <<500, 209>>, <<750, 343>>, <<1000, 498>>,
       <<1250, 675>>, <<1500, 874>>, <<1750, 1096>>, <<2000, 1341>>, <<2250, 1611>>,
       <<2500, 1905>>, <<2750, 2224>>, <<3000, 2568>>, <<3250, 2937>>, <<3500, 3332>>,
       <<3750, 3752>>, <<4000, 4198>>, <<4250, 4669>>, <<4500, 5167>>, <<4750, 5691>>,
       <<5000, 6240>> >>

\* k = 1 - Math.exp(-dtMs / tau)
\* a faulty variant: the first-order approximation dt / tau of 1 - exp(-dt / tau)
SmoothKLinear(dtMs, tau) == (dtMs * 1000) \div tau

SmoothK(dtMs, tau) == Interp(ExpTable, Min(7000, (dtMs * 1000) \div tau), 1)

\* current + (target - current) * k
Approach(current, target, k) ==
    current + Sign(target - current) * ((Abs(target - current) * k) \div 1000)

\* -log10 of the two-sided p-value of z (twoSidedPFromZ followed by Math.log10)
surprisalFromZ(z) == Interp(SurprisalTable, Min(5000, Abs(z)), 1)

\* ---------------------------------------------------------- Pearson search
\* r over the window of bitSpan bits with the given sums; both variances are
\* floored at 1e-6, which binds exactly when a stream is constant on the
\* window, and then the covariance is zero.
PearsonR(sumXY, sumX, sumY, bitSpan) ==
    LET b2 == bitSpan * bitSpan
        covNum == sumXY * bitSpan - sumX * sumY
        den == (b2 - sumX * sumX) * (b2 - sumY * sumY)
    IN IF den = 0 THEN 0
       ELSE Sign(covNum) * Min(1000, (Abs(covNum) * 10000) \div ISqrt(den * 100))

\* fisherZ * Math.sqrt(Math.max(1, bitSpan - 3)) with r clamped to +-0.999
FisherZ(r, bitSpan) ==
    LET rClamped == Max(-999, Min(999, r))
        fisherZ == Sign(rClamped) * Interp(FisherTable, Abs(rClamped), 1)
    IN (fisherZ * ISqrt(Max(1, bitSpan - 3) * 1000000)) \div 1000

RECURSIVE ScanPearson(_, _, _, _, _, _, _, _)
ScanPearson(cumXY, cumA, cumB, currentIdx, bitsPerTick, minLen, s, best) ==
    IF ~(s < currentIdx - minLen + 1) THEN best
    ELSE LET bitSpan == (currentIdx - s) * bitsPerTick
             sumXYw == At(cumXY, currentIdx) - At(cumXY, s)
             sumXw == At(cumA, currentIdx) - At(cumA, s)
             sumYw == At(cumB, currentIdx) - At(cumB, s)
             r == PearsonR(sumXYw, sumXw, sumYw, bitSpan)
             z == FisherZ(r, bitSpan)
             c == [startIdx |-> s, z |-> z, r |-> r]
         IN ScanPearson(cumXY, cumA, cumB, currentIdx, bitsPerTick, minLen, s + 1,
                        IF Abs(c.z) > Abs(best.z) THEN c ELSE best)

\* a faulty variant: the scan runs up to the current index, whatever minLen is
findOptimalStartingPointPearsonNoMinLen(cumXY, cumA, cumB, currentIdx, bitsPerTick, lookback, minLen) ==
    ScanPearson(cumXY, cumA, cumB, currentIdx, bitsPerTick, 1,
                Max(0, currentIdx - lookback),
                [startIdx |-> currentIdx, z |-> 0, r |-> 0])

findOptimalStartingPointPearson(cumXY, cumA, cumB, currentIdx, bitsPerTick, lookback, minLen) ==
    ScanPearson(cumXY, cumA, cumB, currentIdx, bitsPerTick, minLen,
                Max(0, currentIdx - lookback),
                [startIdx |-> currentIdx, z |-> 0, r |-> 0])

\* ------------------------------------------------------- sample aggregator
\* a faulty variant: agreement is counted only where both bits are 1
RECURSIVE AggregateUpToAgreeOnes(_, _, _, _)
AggregateUpToAgreeOnes(bitsA, bitsB, i, n) ==
    IF i > n
    THEN [onesA |-> 0, onesB |-> 0, agree |-> 0, sumX |-> 0, sumY |-> 0, sumXY |-> 0]
    ELSE LET rest == AggregateUpToAgreeOnes(bitsA, bitsB, i + 1, n)
             a == bitsA[i]
             b == bitsB[i]
             x == IF a = 1 THEN 1 ELSE -1
             y == IF b = 1 THEN 1 ELSE -1
         IN [onesA |-> rest.onesA + (IF a = 1 THEN 1 ELSE 0),
             onesB |-> rest.onesB + (IF b = 1 THEN 1 ELSE 0),
             agree |-> rest.agree + (IF a = 1 /\ b = 1 THEN 1 ELSE 0),
             sumX |-> rest.sumX + x,
             sumY |-> rest.sumY + y,
             sumXY |-> rest.sumXY + x * y]

\* the loop over the n bits of a sample, from bit i on
RECURSIVE AggregateUpTo(_, _, _, _)
AggregateUpTo(bitsA, bitsB, i, n) ==
    IF i > n
    THEN [onesA |-> 0, onesB |-> 0, agree |-> 0, sumX |-> 0, sumY |-> 0, sumXY |-> 0]
    ELSE LET rest == AggregateUpTo(bitsA, bitsB, i + 1, n)
             a == bitsA[i]
             b == bitsB[i]
             x == IF a = 1 THEN 1 ELSE -1
             y == IF b = 1 THEN 1 ELSE -1
         IN [onesA |-> rest.onesA + (IF a = 1 THEN 1 ELSE 0),
             onesB |-> rest.onesB + (IF b = 1 THEN 1 ELSE 0),
             agree |-> rest.agree + (IF a = b THEN 1 ELSE 0),
             sumX |-> rest.sumX + x,
             sumY |-> rest.sumY + y,
             sumXY |-> rest.sumXY + x * y]

AggregateFrom(bitsA, bitsB, i) == AggregateUpTo(bitsA, bitsB, i, sampleBits)

recomputeAggregatesFromBuffers(bitsA, bitsB) == AggregateFrom(bitsA, bitsB, 1)

\* ------------------------------------------------------------ configuration
updatesPerSec == 1
\* SPEED_MULTIPLIERS[responseSpeed] for the default responseSpeed 3, in thousandths
speedMult == 1000

MODE_PRESETS ==
    [wow |-> [sigEnergyRiseMs |-> 1000, sigEnergyFallMs |-> 2000,
              switchMargin |-> 60, keepBonus |-> 30],
     mellow |-> [sigEnergyRiseMs |-> 2000, sigEnergyFallMs |-> 3600,
                 switchMargin |-> 120, keepBonus |-> 60]]

preset(lightMode) ==
    LET basePreset == MODE_PRESETS[lightMode]
    IN [basePreset EXCEPT !.sigEnergyRiseMs = (@ * speedMult) \div 1000,
                          !.sigEnergyFallMs = (@ * speedMult) \div 1000]

\* 1000 / Math.max(0.25, updatesPerSec), the dt handed to the per-tick smoothers
TickDtMs == 1000 \div updatesPerSec

defaultEpisode == [startTick |-> 0, peakZ |-> 0, currentZ |-> 0, strength |-> 0]

ZeroRaw == [ch \in Channels |-> 0]

\* ------------------------------------------------------- channel detector
\* a faulty variant: the strength is the stronger of the two streams
DirectionalZStronger(cumA, cumB, currentIdx, N, spA, spB) ==
    LET commonStart == Max(spA.startIdx, spB.startIdx)
        tickSpan == currentIdx - commonStart
        bitSpan == tickSpan * N
        deltaA == At(cumA, currentIdx) - At(cumA, commonStart)
        deltaB == At(cumB, currentIdx) - At(cumB, commonStart)
        zA_seg == ZMilli(deltaA, bitSpan)
        zB_seg == ZMilli(deltaB, bitSpan)
        strength == Max(Abs(zA_seg), Abs(zB_seg))
        same == spA.num * spB.num > 0 /\ tickSpan >= MIN_SEGMENT_LEN
        opposite == spA.num * spB.num < 0 /\ tickSpan >= MIN_SEGMENT_LEN
    IN [corrHighZ |-> IF same /\ (deltaA > 0 /\ deltaB > 0) THEN strength ELSE 0,
        corrLowZ |-> IF same /\ ~(deltaA > 0 /\ deltaB > 0) THEN strength ELSE 0,
        corrStart |-> IF same THEN commonStart ELSE currentIdx,
        antiAbZ |-> IF opposite /\ (deltaA > 0 /\ deltaB < 0) THEN strength ELSE 0,
        antiBaZ |-> IF opposite /\ ~(deltaA > 0 /\ deltaB < 0) THEN strength ELSE 0,
        antiStart |-> IF opposite THEN commonStart ELSE currentIdx]

\* The correlated / anti-correlated block of signalTick: both streams are
\* re-measured over the common window [commonStart, currentIdx].
DirectionalZ(cumA, cumB, currentIdx, N, spA, spB) ==
    LET commonStart == Max(spA.startIdx, spB.startIdx)
        tickSpan == currentIdx - commonStart
        bitSpan == tickSpan * N
        deltaA == At(cumA, currentIdx) - At(cumA, commonStart)
        deltaB == At(cumB, currentIdx) - At(cumB, commonStart)
        zA_seg == ZMilli(deltaA, bitSpan)
        zB_seg == ZMilli(deltaB, bitSpan)
        strength == Min(Abs(zA_seg), Abs(zB_seg))
        same == spA.num * spB.num > 0 /\ tickSpan >= MIN_SEGMENT_LEN
        opposite == spA.num * spB.num < 0 /\ tickSpan >= MIN_SEGMENT_LEN
    IN [corrHighZ |-> IF same /\ (deltaA > 0 /\ deltaB > 0) THEN strength ELSE 0,
        corrLowZ |-> IF same /\ ~(deltaA > 0 /\ deltaB > 0) THEN strength ELSE 0,
        corrStart |-> IF same THEN commonStart ELSE currentIdx,
        antiAbZ |-> IF opposite /\ (deltaA > 0 /\ deltaB < 0) THEN strength ELSE 0,
        antiBaZ |-> IF opposite /\ ~(deltaA > 0 /\ deltaB < 0) THEN strength ELSE 0,
        antiStart |-> IF opposite THEN commonStart ELSE currentIdx]

\* --------------------------------------------------------- episode tracker
\* a faulty variant: the exposed strength has no floor at 0.7 * peakZ
updateEpisodeNoFloor(ep, currentZ, segmentStart, currentIdx) ==
    LET absZ == Abs(currentZ)
        ep1 == IF absZ > EPISODE_Z_THRESHOLD
               THEN IF absZ > ep.peakZ
                    THEN [ep EXCEPT !.startTick = IF ep.peakZ < EPISODE_Z_THRESHOLD
                                                  THEN segmentStart ELSE @,
                                    !.peakZ = absZ,
                                    !.currentZ = absZ]
                    ELSE [ep EXCEPT !.currentZ = absZ]
               ELSE IF /\ ep.peakZ > EPISODE_Z_THRESHOLD
                       /\ absZ * 1000 < ep.peakZ * EPISODE_DECAY_THRESHOLD
                    THEN [ep EXCEPT !.startTick = currentIdx,
                                    !.peakZ = absZ,
                                    !.currentZ = absZ]
                    ELSE [ep EXCEPT !.currentZ = absZ]
    IN [ep1 EXCEPT !.strength = strengthFromZ(absZ, STRENGTH_Z_START, STRENGTH_Z_FULL)]

\* a faulty variant: the peak follows |z| down on every tick
updateEpisodePeakFollows(ep, currentZ, segmentStart, currentIdx) ==
    LET absZ == Abs(currentZ)
        ep1 == [ep EXCEPT !.startTick = IF absZ > EPISODE_Z_THRESHOLD
                                           /\ ep.peakZ < EPISODE_Z_THRESHOLD
                                        THEN segmentStart ELSE @,
                          !.peakZ = absZ,
                          !.currentZ = absZ]
        effectiveZ == IF ep1.peakZ > EPISODE_Z_THRESHOLD
                      THEN Max(absZ, (ep1.peakZ * EPISODE_FLOOR) \div 1000)
                      ELSE absZ
    IN [ep1 EXCEPT !.strength = strengthFromZ(effectiveZ, STRENGTH_Z_START, STRENGTH_Z_FULL)]

updateEpisode(ep, currentZ, segmentStart, currentIdx) ==
    LET absZ == Abs(currentZ)
        ep1 == IF absZ > EPISODE_Z_THRESHOLD
               THEN IF absZ > ep.peakZ
                    THEN [ep EXCEPT !.startTick = IF ep.peakZ < EPISODE_Z_THRESHOLD
                                                  THEN segmentStart ELSE @,
                                    !.peakZ = absZ,
                                    !.currentZ = absZ]
                    ELSE [ep EXCEPT !.currentZ = absZ]
               ELSE IF /\ ep.peakZ > EPISODE_Z_THRESHOLD
                       /\ absZ * 1000 < ep.peakZ * EPISODE_DECAY_THRESHOLD
                    THEN [ep EXCEPT !.startTick = currentIdx,
                                    !.peakZ = absZ,
                                    !.currentZ = absZ]
                    ELSE [ep EXCEPT !.currentZ = absZ]
        effectiveZ == IF ep1.peakZ > EPISODE_Z_THRESHOLD
                      THEN Max(absZ, (ep1.peakZ * EPISODE_FLOOR) \div 1000)
                      ELSE absZ
    IN [ep1 EXCEPT !.strength = strengthFromZ(effectiveZ, STRENGTH_Z_START, STRENGTH_Z_FULL)]

\* -------------------------------------------------------- dominance arbiter
RECURSIVE ScanBest(_, _, _)
ScanBest(raw, i, acc) ==
    IF i > Len(ChannelOrder) THEN acc
    ELSE LET k == ChannelOrder[i]
         IN ScanBest(raw, i + 1,
                     IF raw[k] > acc.bestV THEN [best |-> k, bestV |-> raw[k]] ELSE acc)

\* a faulty variant: the incumbent is compared without its keepBonus
nextDominantNoKeepBonus(dom, raw, switchMargin, keepBonus) ==
    LET b == ScanBest(raw, 1, [best |-> "null", bestV |-> 0])
        next == IF b.bestV > DOMINANCE_THRESHOLD /\ b.best # "null" THEN b.best ELSE "baseline"
        nextStrength == IF next = "baseline" THEN 0 ELSE b.bestV
        currentStrength == IF dom # "baseline" THEN raw[dom] ELSE 0
        shouldSwitch == IF dom = "baseline" THEN next # "baseline"
                        ELSE nextStrength > currentStrength + switchMargin
    IN IF shouldSwitch THEN next ELSE dom

\* a faulty variant: a switch between two channels passes through baseline
nextDominantViaBaseline(dom, raw, switchMargin, keepBonus) ==
    LET b == ScanBest(raw, 1, [best |-> "null", bestV |-> 0])
        next == IF b.bestV > DOMINANCE_THRESHOLD /\ b.best # "null" THEN b.best ELSE "baseline"
        nextStrength == IF next = "baseline" THEN 0 ELSE b.bestV
        currentStrength == (IF dom # "baseline" THEN raw[dom] ELSE 0) + keepBonus
        shouldSwitch == IF dom = "baseline" THEN next # "baseline"
                        ELSE nextStrength > currentStrength + switchMargin
    IN IF shouldSwitch THEN (IF dom = "baseline" THEN next ELSE "baseline") ELSE dom

\* the channel part of updateDominant: the dominant channel after the call
nextDominant(dom, raw, switchMargin, keepBonus) ==
    LET b == ScanBest(raw, 1, [best |-> "null", bestV |-> 0])
        next == IF b.bestV > DOMINANCE_THRESHOLD /\ b.best # "null" THEN b.best ELSE "baseline"
        nextStrength == IF next = "baseline" THEN 0 ELSE b.bestV
        currentStrength == (IF dom # "baseline" THEN raw[dom] ELSE 0) + keepBonus
        shouldSwitch == IF dom = "baseline" THEN next # "baseline"
                        ELSE nextStrength > currentStrength + switchMargin
    IN IF shouldSwitch THEN next ELSE dom

\* the magnitude part of updateDominant
nextDominance(dominanceV, raw, dtMs) ==
    LET b == ScanBest(raw, 1, [best |-> "null", bestV |-> 0])
        next == IF b.bestV > DOMINANCE_THRESHOLD /\ b.best # "null" THEN b.best ELSE "baseline"
        target == IF next = "baseline" THEN 0 ELSE b.bestV
        tau == IF target > dominanceV THEN 1200 ELSE 1800
    IN Approach(dominanceV, target, SmoothK(dtMs, tau))

\* a faulty variant: the strongest channel is adopted without the switch test
updateDominantAlwaysSwitch(st, raw, dtMs) ==
    LET b == ScanBest(raw, 1, [best |-> "null", bestV |-> 0])
        next == IF b.bestV > DOMINANCE_THRESHOLD /\ b.best # "null" THEN b.best ELSE "baseline"
    IN [st EXCEPT !.dominant = next,
                  !.dominance = nextDominance(st.dominance, raw, dtMs)]

updateDominant(st, raw, dtMs) ==
    LET p == preset(st.lightMode)
    IN [st EXCEPT !.dominant = nextDominant(st.dominant, raw, p.switchMargin, p.keepBonus),
                  !.dominance = nextDominance(st.dominance, raw, dtMs)]

\* ------------------------------------------------------------- signalTick
\* a faulty variant: the trim keeps the oldest entries
SliceFirst(arr, maxLen) ==
    IF Len(arr) > maxLen THEN SubSeq(arr, 1, maxLen) ELSE arr

\* arr.slice(-maxLen)
SliceLast(arr, maxLen) ==
    IF Len(arr) > maxLen THEN SubSeq(arr, Len(arr) - maxLen + 1, Len(arr)) ELSE arr

\* a faulty variant: the tick's contribution is pushed without the previous sum
PushTrimNoCarry(arr, contribution) ==
    SliceLast(Append(arr, contribution), MAX_LOOKBACK + TRIM_MARGIN)

\* push followed by the trim to MAX_LOOKBACK + margin entries
PushTrim(arr, contribution) ==
    SliceLast(Append(arr, At(arr, Len(arr) - 1) + contribution), MAX_LOOKBACK + TRIM_MARGIN)

\* -log10(1 - demoBoost) for demoBoost in [0, 0.9]
DemoLogTable ==
    << <<0, 0>>, <<100, 45>>, <<200, 96>>, <<300, 154>>, <<400, 221>>, <<500, 301>>,
       <<600, 397>>, <<700, 522>>, <<800, 698>>, <<850, 823>>, <<900, 1000>> >>

MaxOf(S) == CHOOSE x \in S : \A y \in S : y <= x

\* Every per-tick measurement of signalTick on the series after the push.
Measure(cumA, cumB, cumAgree, cumXY) ==
    LET N == sampleBits
        currentIdx == Len(cumA) - 1
        spA == findOptimalStartingPoint(cumA, currentIdx, N, MAX_LOOKBACK, MIN_SEGMENT_LEN)
        spB == findOptimalStartingPoint(cumB, currentIdx, N, MAX_LOOKBACK, MIN_SEGMENT_LEN)
        spAgree == findOptimalStartingPointAgreement(cumAgree, currentIdx, N,
                                                     MAX_LOOKBACK, MIN_SEGMENT_LEN)
        spPearson == findOptimalStartingPointPearson(cumXY, cumA, cumB, currentIdx, N,
                                                     MAX_LOOKBACK, MIN_SEGMENT_LEN)
        dir == DirectionalZ(cumA, cumB, currentIdx, N, spA, spB)
    IN [currentIdx |-> currentIdx,
        z |-> [correlated_high |-> dir.corrHighZ, correlated_low |-> dir.corrLowZ,
               anti_ab |-> dir.antiAbZ, anti_ba |-> dir.antiBaZ,
               stick |-> spAgree.z, pearson |-> spPearson.z],
        start |-> [correlated_high |-> dir.corrStart, correlated_low |-> dir.corrStart,
                   anti_ab |-> dir.antiStart, anti_ba |-> dir.antiStart,
                   stick |-> spAgree.startIdx, pearson |-> spPearson.startIdx],
        pearsonR |-> spPearson.r]

\* the raw channel strengths before the demo boost
RawStrength(m) ==
    [ch \in Channels |->
        IF ch = "stick" THEN strengthFromZ(m.z[ch], STICK_Z_START, STICK_Z_FULL)
        ELSE IF ch = "pearson"
             THEN clamp01(((Abs(m.pearsonR) - PEARSON_R_START) * 1000)
                              \div (PEARSON_R_FULL - PEARSON_R_START))
             ELSE strengthFromZ(m.z[ch], STRENGTH_Z_START, STRENGTH_Z_FULL)]

\* the target of sigEnergy: min of the p-values against COHERENCE_FLOOR (0.35,
\* whose -log10 is 0.455), the demo override, the surprisal clamp and remap
TargetSig(m, demoBoost) ==
    LET real == MaxOf({455} \cup {surprisalFromZ(m.z[ch]) : ch \in {c \in Channels : m.z[c] # 0}})
        overall == IF demoBoost > 50
                   THEN Max(real, 3000 + Interp(DemoLogTable, Min(900, demoBoost), 1))
                   ELSE real
        surprisal == Min(6000, overall)
    IN clamp01(((surprisal - 800) * 1000) \div 4800)

\* st is the engine state as a record; bitsA and bitsB are the fresh samples
signalTick(st, bitsA, bitsB) ==
    LET agg == recomputeAggregatesFromBuffers(bitsA, bitsB)
        N == sampleBits
        cumA == PushTrim(st.cumSumA, agg.sumX)
        cumB == PushTrim(st.cumSumB, agg.sumY)
        cumAgree == PushTrim(st.cumSumAgree, agg.agree - N \div 2)
        cumXY == PushTrim(st.cumSumXY, agg.sumXY)
        m == Measure(cumA, cumB, cumAgree, cumXY)
        strengths == RawStrength(m)
        raw == [ch \in Channels |->
                   IF st.demoChannel = ch THEN Min(1000, strengths[ch] + st.demoBoost)
                   ELSE strengths[ch]]
        eps == [ch \in Channels |->
                   updateEpisode(st.episodes[ch], m.z[ch], m.start[ch], m.currentIdx)]
        st1 == updateDominant(st, raw, TickDtMs)
        decayed == (st.demoBoost * 970) \div 1000
        boost == IF st.demoMode THEN st.demoBoost
                 ELSE IF decayed < 10 THEN 0 ELSE decayed
        targetSig == TargetSig(m, boost)
        p == preset(st.lightMode)
        sigTau == IF targetSig > st.sigEnergy THEN p.sigEnergyRiseMs ELSE p.sigEnergyFallMs
    IN [st1 EXCEPT !.tickCount = st.tickCount + 1,
                   !.cumSumA = cumA, !.cumSumB = cumB,
                   !.cumSumAgree = cumAgree, !.cumSumXY = cumXY,
                   !.episodes = eps,
                   !.rawLast = raw,
                   !.coherence = MaxOf({raw[ch] : ch \in Channels}),
                   !.demoBoost = boost,
                   !.sigEnergy = Approach(st.sigEnergy, targetSig, SmoothK(TickDtMs, sigTau))]

\* ------------------------------------------------------------------ state
VARIABLES
    pc,              \* "unmounted", "idle" (between frames), "ticks", "post" (inside step)
    dtMs,            \* the argument of the running step call
    ticksLeft,       \* signalTick calls the running step still has to make
    bootMs, tickBudget,
    lightMode,
    cumSumA, cumSumB, cumSumAgree, cumSumXY, tickCount,
    episodes, rawLast,
    dominant, dominance, coherence, sigEnergy,
    demoMode, demoBoost, demoChannel, demoIndex, demoPearsonDir, demoPearsonBoost,
    demoElapsed,     \* performance.now() - demoStartTime as of the last frame
    lastOp,          \* history: the operation that produced this state
    dueTicks,        \* history: Math.floor(tickBudget) of the last frame, before the cap
    bootLock,        \* history: bootLock of the last frame
    frameTicks,      \* history: signalTick calls made by the last frame so far
    hIn, hOut        \* inputs and results of the function harnesses

engineVars ==
    <<lightMode, cumSumA, cumSumB, cumSumAgree, cumSumXY, tickCount, episodes, rawLast,
      dominant, dominance, coherence, sigEnergy, demoMode, demoBoost, demoChannel>>

demoVars == <<demoIndex, demoPearsonDir, demoPearsonBoost, demoElapsed>>

frameVars == <<pc, dtMs, ticksLeft, bootMs, tickBudget, dueTicks, bootLock, frameTicks>>

harnessVars == <<hIn, hOut>>

vars == <<engineVars, demoVars, frameVars, lastOp, harnessVars>>

\* the engine state signalTick works on, as one record
Eng ==
    [lightMode |-> lightMode,
     cumSumA |-> cumSumA, cumSumB |-> cumSumB,
     cumSumAgree |-> cumSumAgree, cumSumXY |-> cumSumXY,
     tickCount |-> tickCount, episodes |-> episodes, rawLast |-> rawLast,
     dominant |-> dominant, dominance |-> dominance,
     coherence |-> coherence, sigEnergy |-> sigEnergy,
     demoMode |-> demoMode, demoBoost |-> demoBoost, demoChannel |-> demoChannel]

SetEng(st) ==
    /\ lightMode' = st.lightMode
    /\ cumSumA' = st.cumSumA /\ cumSumB' = st.cumSumB
    /\ cumSumAgree' = st.cumSumAgree /\ cumSumXY' = st.cumSumXY
    /\ tickCount' = st.tickCount /\ episodes' = st.episodes /\ rawLast' = st.rawLast
    /\ dominant' = st.dominant /\ dominance' = st.dominance
    /\ coherence' = st.coherence /\ sigEnergy' = st.sigEnergy
    /\ demoMode' = st.demoMode /\ demoBoost' = st.demoBoost
    /\ demoChannel' = st.demoChannel

DEMO_CHANNELS == ChannelOrder
DEMO_DURATION_MS == 5000

\* the bit patterns the entropy source delivers in the model
Ones == [i \in 1..sampleBits |-> 1]
Zeros == [i \in 1..sampleBits |-> 0]
Half == [i \in 1..sampleBits |-> IF i <= HalfBits THEN 1 ELSE 0]
Samples == {<<Ones, Ones>>, <<Ones, Zeros>>, <<Half, Half>>}

\* the frame lengths the display delivers in the model: a short frame and a stall
DtChoices == {1000, 9500}

NoHarness == [fn |-> "none"]

\* the module-level initialisers of +page.svelte (before onMount)
InitEngine ==
    /\ pc = "unmounted" /\ dtMs = 0 /\ ticksLeft = 0
    /\ bootMs = 0 /\ tickBudget = 0
    /\ lightMode = "mellow"
    /\ cumSumA = <<>> /\ cumSumB = <<>> /\ cumSumAgree = <<>> /\ cumSumXY = <<>>
    /\ tickCount = 0
    /\ episodes = [ch \in Channels |-> defaultEpisode]
    /\ rawLast = ZeroRaw
    /\ dominant = "baseline" /\ dominance = 0 /\ coherence = 0 /\ sigEnergy = 0
    /\ demoMode = FALSE /\ demoBoost = 0 /\ demoChannel = "correlated_high"
    /\ demoIndex = 0 /\ demoPearsonDir = 1 /\ demoPearsonBoost = 0 /\ demoElapsed = 0
    /\ lastOp = "init" /\ dueTicks = 0 /\ bootLock = TRUE /\ frameTicks = 0

Init == InitEngine /\ hIn = NoHarness /\ hOut = NoHarness

\* a faulty variant: the episodes survive the reseed
reseedKeepEpisodes ==
    /\ coherence' = 0 /\ sigEnergy' = 0 /\ tickBudget' = 0
    /\ dominant' = "baseline" /\ dominance' = 0
    /\ demoBoost' = 0 /\ demoMode' = FALSE /\ demoIndex' = 0 /\ demoPearsonBoost' = 0
    /\ bootMs' = 0
    /\ cumSumA' = <<0>> /\ cumSumB' = <<0>> /\ cumSumAgree' = <<0>> /\ cumSumXY' = <<0>>
    /\ tickCount' = 0
    /\ UNCHANGED <<episodes, lightMode, rawLast, demoChannel, demoPearsonDir, demoElapsed>>

\* reseed(): called by onMount and available to the renderer at any frame boundary
reseed ==
    /\ coherence' = 0 /\ sigEnergy' = 0 /\ tickBudget' = 0
    /\ dominant' = "baseline" /\ dominance' = 0
    /\ demoBoost' = 0 /\ demoMode' = FALSE /\ demoIndex' = 0 /\ demoPearsonBoost' = 0
    /\ bootMs' = 0
    /\ cumSumA' = <<0>> /\ cumSumB' = <<0>> /\ cumSumAgree' = <<0>> /\ cumSumXY' = <<0>>
    /\ tickCount' = 0
    /\ episodes' = [ch \in Channels |-> defaultEpisode]
    /\ UNCHANGED <<lightMode, rawLast, demoChannel, demoPearsonDir, demoElapsed>>

Reseed ==
    /\ pc \in {"unmounted", "idle"}
    /\ reseed
    /\ pc' = "idle" /\ lastOp' = "reseed"
    /\ UNCHANGED <<dtMs, ticksLeft, dueTicks, bootLock, frameTicks, harnessVars>>

\* a faulty variant: the catch-up cap is one tick too high
StepBeginLooseCap(dt) ==
    /\ pc = "idle"
    /\ LET boot == Min(bootMs + dt, BOOT_MS) < BOOT_MS
           budget == tickBudget + updatesPerSec * dt
           due == budget \div 1000
           ticks == Min(due, MAX_CATCHUP + 1)
       IN /\ (~boot => tickCount + Min(due, MAX_CATCHUP) <= MaxTicks)
          /\ bootMs' = Min(bootMs + dt, BOOT_MS)
          /\ dtMs' = dt /\ dueTicks' = due /\ bootLock' = boot /\ frameTicks' = 0
          /\ IF boot
             THEN /\ tickBudget' = Min(BOOT_BUDGET_CAP, budget)
                  /\ dominant' = "baseline" /\ dominance' = 0
                  /\ coherence' = 0 /\ sigEnergy' = 0
                  /\ rawLast' = ZeroRaw
                  /\ ticksLeft' = 0 /\ pc' = "post"
             ELSE IF ticks > 0
             THEN /\ tickBudget' = budget - ticks * 1000
                  /\ ticksLeft' = ticks /\ pc' = "ticks"
                  /\ UNCHANGED <<dominant, dominance, coherence, sigEnergy, rawLast>>
             ELSE /\ tickBudget' = Min(BOOT_BUDGET_CAP, budget)
                  /\ ticksLeft' = 0 /\ pc' = "post"
                  /\ UNCHANGED <<dominant, dominance, coherence, sigEnergy, rawLast>>
    /\ lastOp' = "step"
    /\ UNCHANGED <<lightMode, cumSumA, cumSumB, cumSumAgree, cumSumXY, tickCount, episodes,
                   demoMode, demoBoost, demoChannel, demoVars, harnessVars>>

\* a faulty variant: a frame without a tick resets the engine as a boot frame does
StepBeginSnapBack(dt) ==
    /\ pc = "idle"
    /\ LET boot == Min(bootMs + dt, BOOT_MS) < BOOT_MS
           budget == tickBudget + updatesPerSec * dt
           due == budget \div 1000
           ticks == Min(due, MAX_CATCHUP)
       IN /\ (~boot => tickCount + ticks <= MaxTicks)
          /\ bootMs' = Min(bootMs + dt, BOOT_MS)
          /\ dtMs' = dt /\ dueTicks' = due /\ bootLock' = boot /\ frameTicks' = 0
          /\ IF boot
             THEN /\ tickBudget' = Min(BOOT_BUDGET_CAP, budget)
                  /\ dominant' = "baseline" /\ dominance' = 0
                  /\ coherence' = 0 /\ sigEnergy' = 0
                  /\ rawLast' = ZeroRaw
                  /\ ticksLeft' = 0 /\ pc' = "post"
             ELSE IF ticks > 0
             THEN /\ tickBudget' = budget - ticks * 1000
                  /\ ticksLeft' = ticks /\ pc' = "ticks"
                  /\ UNCHANGED <<dominant, dominance, coherence, sigEnergy, rawLast>>
             ELSE /\ tickBudget' = Min(BOOT_BUDGET_CAP, budget)
                  /\ dominant' = "baseline" /\ dominance' = 0
                  /\ coherence' = 0 /\ sigEnergy' = 0
                  /\ rawLast' = ZeroRaw
                  /\ ticksLeft' = 0 /\ pc' = "post"
    /\ lastOp' = "step"
    /\ UNCHANGED <<lightMode, cumSumA, cumSumB, cumSumAgree, cumSumXY, tickCount, episodes,
                   demoMode, demoBoost, demoChannel, demoVars, harnessVars>>

\* a faulty variant: a frame that ticks drops the fraction of the budget
StepBeginDropFraction(dt) ==
    /\ pc = "idle"
    /\ LET boot == Min(bootMs + dt, BOOT_MS) < BOOT_MS
           budget == tickBudget + updatesPerSec * dt
           due == budget \div 1000
           ticks == Min(due, MAX_CATCHUP)
       IN /\ (~boot => tickCount + ticks <= MaxTicks)
          /\ bootMs' = Min(bootMs + dt, BOOT_MS)
          /\ dtMs' = dt /\ dueTicks' = due /\ bootLock' = boot /\ frameTicks' = 0
          /\ IF boot
             THEN /\ tickBudget' = Min(BOOT_BUDGET_CAP, budget)
                  /\ dominant' = "baseline" /\ dominance' = 0
                  /\ coherence' = 0 /\ sigEnergy' = 0
                  /\ rawLast' = ZeroRaw
                  /\ ticksLeft' = 0 /\ pc' = "post"
             ELSE IF ticks > 0
             THEN /\ tickBudget' = 0
                  /\ ticksLeft' = ticks /\ pc' = "ticks"
                  /\ UNCHANGED <<dominant, dominance, coherence, sigEnergy, rawLast>>
             ELSE /\ tickBudget' = Min(BOOT_BUDGET_CAP, budget)
                  /\ ticksLeft' = 0 /\ pc' = "post"
                  /\ UNCHANGED <<dominant, dominance, coherence, sigEnergy, rawLast>>
    /\ lastOp' = "step"
    /\ UNCHANGED <<lightMode, cumSumA, cumSumB, cumSumAgree, cumSumXY, tickCount, episodes,
                   demoMode, demoBoost, demoChannel, demoVars, harnessVars>>

\* step(dtMs), first part: the boot lock and the tick budget; the engine is
\* followed for at most maxTicks ticks
StepBeginUpTo(dt, maxTicks) ==
    /\ pc = "idle"
    /\ LET boot == Min(bootMs + dt, BOOT_MS) < BOOT_MS
           budget == tickBudget + updatesPerSec * dt
           due == budget \div 1000
           ticks == Min(due, MAX_CATCHUP)
       IN /\ (~boot => tickCount + ticks <= maxTicks)
          /\ bootMs' = Min(bootMs + dt, BOOT_MS)
          /\ dtMs' = dt /\ dueTicks' = due /\ bootLock' = boot /\ frameTicks' = 0
          /\ IF boot
             THEN /\ tickBudget' = Min(BOOT_BUDGET_CAP, budget)
                  /\ dominant' = "baseline" /\ dominance' = 0
                  /\ coherence' = 0 /\ sigEnergy' = 0
                  /\ rawLast' = ZeroRaw
                  /\ ticksLeft' = 0 /\ pc' = "post"
             ELSE IF ticks > 0
             THEN /\ tickBudget' = budget - ticks * 1000
                  /\ ticksLeft' = ticks /\ pc' = "ticks"
                  /\ UNCHANGED <<dominant, dominance, coherence, sigEnergy, rawLast>>
             ELSE /\ tickBudget' = Min(BOOT_BUDGET_CAP, budget)
                  /\ ticksLeft' = 0 /\ pc' = "post"
                  /\ UNCHANGED <<dominant, dominance, coherence, sigEnergy, rawLast>>
    /\ lastOp' = "step"
    /\ UNCHANGED <<lightMode, cumSumA, cumSumB, cumSumAgree, cumSumXY, tickCount, episodes,
                   demoMode, demoBoost, demoChannel, demoVars, harnessVars>>

StepBegin(dt) == StepBeginUpTo(dt, MaxTicks)

\* one iteration of the loop that calls signalTick
Tick(sample) ==
    /\ pc = "ticks"
    /\ SetEng(signalTick(Eng, sample[1], sample[2]))
    /\ ticksLeft' = ticksLeft - 1
    /\ pc' = IF ticksLeft = 1 THEN "post" ELSE "ticks"
    /\ frameTicks' = frameTicks + 1
    /\ lastOp' = "tick"
    /\ UNCHANGED <<dtMs, bootMs, tickBudget, dueTicks, bootLock, demoVars, harnessVars>>

\* Math.pow(Math.sin(Math.PI * t), 2)
EnvelopeTable ==
    << <<0, 0>>, <<100, 95>>, <<200, 345>>, <<300, 654>>, <<400, 904>>, <<500, 1000>>,
       <<600, 904>>, <<700, 654>>, <<800, 345>>, <<900, 95>>, <<1000, 0>> >>

\* a faulty variant: the Pearson direction is not alternated
StepEndNoAlternate ==
    /\ pc = "post"
    /\ pc' = "idle"
    /\ IF ~demoMode
       THEN UNCHANGED <<dominant, dominance, demoMode, demoBoost, demoChannel, demoVars>>
       ELSE LET elapsed == demoElapsed + dtMs
                t == Min(1000, (elapsed * 1000) \div DEMO_DURATION_MS)
                envelope == Interp(EnvelopeTable, t, 1)
                isAnomalySegment == demoIndex = Len(DEMO_CHANNELS)
                over == elapsed >= DEMO_DURATION_MS
                done == over /\ demoIndex + 1 >= Len(DEMO_CHANNELS) + 1
                toChannel == over /\ demoIndex + 1 < Len(DEMO_CHANNELS)
            IN /\ demoIndex' = IF over THEN demoIndex + 1 ELSE demoIndex
               /\ demoMode' = ~done
               /\ demoBoost' = IF done \/ isAnomalySegment THEN 0
                               ELSE (850 * envelope) \div 1000
               /\ demoPearsonBoost' = IF done \/ isAnomalySegment THEN 0
                                      ELSE demoPearsonDir * ((350 * envelope) \div 1000)
               /\ dominant' = IF done \/ isAnomalySegment THEN "baseline" ELSE demoChannel
               /\ dominance' = IF done \/ isAnomalySegment THEN 0 ELSE envelope
               /\ demoChannel' = IF toChannel THEN DEMO_CHANNELS[demoIndex + 2] ELSE demoChannel
               /\ demoPearsonDir' = demoPearsonDir
               /\ demoElapsed' = IF over /\ ~done THEN 0 ELSE elapsed
    /\ UNCHANGED <<lightMode, cumSumA, cumSumB, cumSumAgree, cumSumXY, tickCount, episodes,
                   rawLast, coherence, sigEnergy,
                   dtMs, ticksLeft, bootMs, tickBudget, dueTicks, bootLock, frameTicks, lastOp,
                   harnessVars>>

\* step(dtMs), the demo sequencing block
StepEnd ==
    /\ pc = "post"
    /\ pc' = "idle"
    /\ IF ~demoMode
       THEN UNCHANGED <<dominant, dominance, demoMode, demoBoost, demoChannel, demoVars>>
       ELSE LET elapsed == demoElapsed + dtMs
                t == Min(1000, (elapsed * 1000) \div DEMO_DURATION_MS)
                envelope == Interp(EnvelopeTable, t, 1)
                isAnomalySegment == demoIndex = Len(DEMO_CHANNELS)
                over == elapsed >= DEMO_DURATION_MS
                done == over /\ demoIndex + 1 >= Len(DEMO_CHANNELS) + 1
                toChannel == over /\ demoIndex + 1 < Len(DEMO_CHANNELS)
            IN /\ demoIndex' = IF over THEN demoIndex + 1 ELSE demoIndex
               /\ demoMode' = ~done
               /\ demoBoost' = IF done \/ isAnomalySegment THEN 0
                               ELSE (850 * envelope) \div 1000
               /\ demoPearsonBoost' = IF done \/ isAnomalySegment THEN 0
                                      ELSE demoPearsonDir * ((350 * envelope) \div 1000)
               /\ dominant' = IF done \/ isAnomalySegment THEN "baseline" ELSE demoChannel
               /\ dominance' = IF done \/ isAnomalySegment THEN 0 ELSE envelope
               /\ demoChannel' = IF toChannel THEN DEMO_CHANNELS[demoIndex + 2] ELSE demoChannel
               /\ demoPearsonDir' = IF toChannel THEN -demoPearsonDir ELSE demoPearsonDir
               /\ demoElapsed' = IF over /\ ~done THEN 0 ELSE elapsed
    /\ UNCHANGED <<lightMode, cumSumA, cumSumB, cumSumAgree, cumSumXY, tickCount, episodes,
                   rawLast, coherence, sigEnergy,
                   dtMs, ticksLeft, bootMs, tickBudget, dueTicks, bootLock, frameTicks, lastOp,
                   harnessVars>>

\* handleKeydown, "m" / "M"
KeyM ==
    /\ pc = "idle"
    /\ tickCount <= ModeKeyMaxTicks
    /\ lightMode' = IF lightMode = "wow" THEN "mellow" ELSE "wow"
    /\ lastOp' = "key"
    /\ UNCHANGED <<cumSumA, cumSumB, cumSumAgree, cumSumXY, tickCount, episodes, rawLast,
                   dominant, dominance, coherence, sigEnergy, demoMode, demoBoost, demoChannel,
                   demoVars, frameVars, harnessVars>>

\* handleKeydown, "d" / "D": stop a running demo, or start one
KeyD ==
    /\ pc = "idle"
    /\ IF demoMode
       THEN /\ demoMode' = FALSE /\ demoBoost' = 0 /\ demoPearsonBoost' = 0
            /\ UNCHANGED <<demoIndex, demoChannel, demoPearsonDir, demoElapsed>>
       ELSE /\ demoMode' = TRUE /\ demoIndex' = 0 /\ demoChannel' = DEMO_CHANNELS[1]
            /\ demoPearsonDir' = 1 /\ demoBoost' = 0 /\ demoPearsonBoost' = 0
            /\ demoElapsed' = 0
    /\ lastOp' = "key"
    /\ UNCHANGED <<lightMode, cumSumA, cumSumB, cumSumAgree, cumSumXY, tickCount, episodes,
                   rawLast, dominant, dominance, coherence, sigEnergy, frameVars, harnessVars>>

\* handleKeydown, "Escape" while the demo runs
KeyEscape ==
    /\ pc = "idle"
    /\ demoMode
    /\ demoMode' = FALSE /\ demoBoost' = 0 /\ demoPearsonBoost' = 0
    /\ lastOp' = "key"
    /\ UNCHANGED <<lightMode, cumSumA, cumSumB, cumSumAgree, cumSumXY, tickCount, episodes,
                   rawLast, dominant, dominance, coherence, sigEnergy,
                   demoIndex, demoChannel, demoPearsonDir, demoElapsed, frameVars, harnessVars>>

Next ==
    \/ Reseed
    \/ \E dt \in DtChoices : StepBegin(dt)
    \/ \E sample \in Samples : Tick(sample)
    \/ StepEnd
    \/ KeyM

Spec == Init /\ [][Next]_vars

\* the engine with the demo keys: the samples the entropy source delivers here
DemoSamples == {<<Ones, Ones>>, <<Ones, Zeros>>}

\* the frame lengths here: half a demo segment, and a stall
DemoDtChoices == {2500, 9500}

NextDemo ==
    \/ Reseed
    \/ \E dt \in DemoDtChoices : StepBegin(dt)
    \/ \E sample \in DemoSamples : Tick(sample)
    \/ StepEnd
    \/ KeyD
    \/ KeyEscape

SpecDemo == Init /\ [][NextDemo]_vars

\* the engine under frames shorter than a tick: a short frame, a tick-long
\* frame, and a stall
FrameDtChoices == {400, 1000, 9500}

NextFrames ==
    \/ Reseed
    \/ \E dt \in FrameDtChoices : StepBegin(dt)
    \/ \E sample \in DemoSamples : Tick(sample)
    \/ StepEnd

SpecFrames == Init /\ [][NextFrames]_vars

\* a demo that runs to its end: frames of half a segment and stalls, one
\* sample, the demo started before the engine's first tick, and the engine
\* followed while the demo runs
DemoStartMaxTicks == 0
DemoRunMaxTicks == 90
DemoRunDts == {2500, 9500}
DemoRunSamples == {<<Half, Half>>}

FrameBegin ==
    /\ demoMode \/ tickCount <= DemoStartMaxTicks
    /\ \E dt \in DemoRunDts : StepBeginUpTo(dt, DemoRunMaxTicks)

FrameStep ==
    \/ FrameBegin
    \/ \E sample \in DemoRunSamples : Tick(sample)
    \/ StepEnd

\* what the loop that calls signalTick does to its counter
TickLoop ==
    /\ pc = "ticks"
    /\ ticksLeft' = ticksLeft - 1
    /\ pc' = IF ticksLeft = 1 THEN "post" ELSE "ticks"

NextDemoRun ==
    \/ Reseed
    \/ FrameStep
    \/ (demoMode \/ tickCount <= DemoStartMaxTicks) /\ KeyD

\* requestAnimationFrame keeps calling step, and step runs to its end:
\* signalTick returns for every sample, so the loop's fairness is stated on its counter
SpecDemoRun ==
    /\ Init /\ [][NextDemoRun]_vars
    /\ WF_vars(FrameBegin) /\ WF_<<pc, ticksLeft>>(TickLoop) /\ WF_vars(StepEnd)

\* ------------------------------------------- harness: the search functions
\* The searches are pure: their inputs are drawn here, the engine stays as
\* constructed, and each action applies one search to the drawn input.
RECURSIVE RunningSum(_, _)
RunningSum(steps, i) ==
    IF i = 0 THEN <<0>> ELSE LET r == RunningSum(steps, i - 1)
                             IN Append(r, r[i] + steps[i])

SeriesSteps == {-2, -1, 0, 1, 2}

\* every series that starts at 0 and moves by a step of SeriesSteps per tick
SeriesOver(stepSet, maxLen) ==
    UNION {{RunningSum(steps, n) : steps \in [1..n -> stepSet]} : n \in 0..(maxLen - 1)}

\* (bitsPerTick, lookback, minLen)
SearchConfigs == {<<1, 5, 1>>, <<2, 4, 3>>, <<1, 2, 3>>}

\* the current index is the last entry, as in signalTick
SearchInput(s, cfg) ==
    [fn |-> "input", cumSum |-> s, currentIdx |-> Len(s) - 1,
     bitsPerTick |-> cfg[1], lookback |-> cfg[2], minLen |-> cfg[3]]

\* the bit patterns of the Pearson inputs: in step, opposed, constant, mixed
HalfInv == [i \in 1..sampleBits |-> IF i <= HalfBits THEN 0 ELSE 1]
PearsonSamples == {<<Half, Half>>, <<Half, HalfInv>>, <<Ones, Ones>>, <<Ones, Half>>}

\* the XY, A and B series signalTick builds from the first i samples after a reseed
RECURSIVE PearsonSeries(_, _)
PearsonSeries(samples, i) ==
    IF i = 0 THEN [xy |-> <<0>>, a |-> <<0>>, b |-> <<0>>]
    ELSE LET r == PearsonSeries(samples, i - 1)
             agg == recomputeAggregatesFromBuffers(samples[i][1], samples[i][2])
         IN [xy |-> Append(r.xy, r.xy[i] + agg.sumXY),
             a |-> Append(r.a, r.a[i] + agg.sumX),
             b |-> Append(r.b, r.b[i] + agg.sumY)]

\* the current index is the last entry and bitsPerTick is N, as in signalTick
PearsonInput(samples, cfg) ==
    LET series == PearsonSeries(samples, Len(samples))
    IN [fn |-> "pearsonInput",
        cumSumXY |-> series.xy, cumSumA |-> series.a, cumSumB |-> series.b,
        currentIdx |-> Len(samples), bitsPerTick |-> sampleBits,
        lookback |-> cfg[2], minLen |-> cfg[3]]

InitSearch ==
    /\ InitEngine
    /\ \/ \E s \in SeriesOver(SeriesSteps, MaxSeriesLen), cfg \in SearchConfigs :
              hIn = SearchInput(s, cfg)
       \/ \E n \in 0..(MaxSeriesLen - 1), cfg \in SearchConfigs :
              \E samples \in [1..n -> PearsonSamples] : hIn = PearsonInput(samples, cfg)
    /\ hOut = NoHarness

ApplyStartingPoint ==
    /\ hIn.fn = "input" /\ hOut.fn = "none"
    /\ hOut' = [fn |-> "findOptimalStartingPoint",
                res |-> findOptimalStartingPoint(hIn.cumSum, hIn.currentIdx, hIn.bitsPerTick,
                                                 hIn.lookback, hIn.minLen)]
    /\ UNCHANGED <<engineVars, demoVars, frameVars, lastOp, hIn>>

ApplyAgreement ==
    /\ hIn.fn = "input" /\ hOut.fn = "none"
    /\ hOut' = [fn |-> "findOptimalStartingPointAgreement",
                res |-> findOptimalStartingPointAgreement(hIn.cumSum, hIn.currentIdx,
                                                          hIn.bitsPerTick, hIn.lookback,
                                                          hIn.minLen)]
    /\ UNCHANGED <<engineVars, demoVars, frameVars, lastOp, hIn>>

ApplyAgreementOneSided ==
    /\ hIn.fn = "input" /\ hOut.fn = "none"
    /\ hOut' = [fn |-> "findOptimalStartingPointAgreementOneSided",
                res |-> findOptimalStartingPointAgreementOneSided(hIn.cumSum, hIn.currentIdx,
                                                                  hIn.bitsPerTick, hIn.lookback,
                                                                  hIn.minLen)]
    /\ UNCHANGED <<engineVars, demoVars, frameVars, lastOp, hIn>>

ApplyPearson ==
    /\ hIn.fn = "pearsonInput" /\ hOut.fn = "none"
    /\ hOut' = [fn |-> "findOptimalStartingPointPearson",
                res |-> findOptimalStartingPointPearson(hIn.cumSumXY, hIn.cumSumA, hIn.cumSumB,
                                                        hIn.currentIdx, hIn.bitsPerTick,
                                                        hIn.lookback, hIn.minLen)]
    /\ UNCHANGED <<engineVars, demoVars, frameVars, lastOp, hIn>>

NextSearch == ApplyStartingPoint \/ ApplyAgreement \/ ApplyAgreementOneSided \/ ApplyPearson

SpecSearch == InitSearch /\ [][NextSearch]_vars

\* ------------------------------------- harness: the directional classifier
\* Two series as signalTick holds them after the push: they start at 0, move
\* by a tick's sum of +1/-1 over directionalBits bits per entry (all ones, all
\* zeros, balanced, or one more zero than balanced) and have at most
\* MAX_LOOKBACK + TRIM_MARGIN entries.
directionalBits == 2 * DirectionalHalfBits

TickSums == {-directionalBits, -2, 0, directionalBits}

EngineSeries == SeriesOver(TickSums, MAX_LOOKBACK + TRIM_MARGIN)

InitDirectional ==
    /\ InitEngine
    /\ \E a \in EngineSeries, b \in EngineSeries :
           /\ Len(a) = Len(b)
           /\ hIn = [fn |-> "series", cumSumA |-> a, cumSumB |-> b]
    /\ hOut = NoHarness

\* the searches on A and B followed by the correlated / anti-correlated block
ApplyDirectional ==
    /\ hIn.fn = "series" /\ hOut.fn = "none"
    /\ LET currentIdx == Len(hIn.cumSumA) - 1
           spA == findOptimalStartingPoint(hIn.cumSumA, currentIdx, directionalBits,
                                           MAX_LOOKBACK, MIN_SEGMENT_LEN)
           spB == findOptimalStartingPoint(hIn.cumSumB, currentIdx, directionalBits,
                                           MAX_LOOKBACK, MIN_SEGMENT_LEN)
       IN hOut' = [fn |-> "directional", currentIdx |-> currentIdx, spA |-> spA, spB |-> spB,
                   dir |-> DirectionalZ(hIn.cumSumA, hIn.cumSumB, currentIdx, directionalBits,
                                        spA, spB)]
    /\ UNCHANGED <<engineVars, demoVars, frameVars, lastOp, hIn>>

NextDirectional == ApplyDirectional

SpecDirectional == InitDirectional /\ [][NextDirectional]_vars

\* The same classifier on the series of the first ticks after reseed, each
\* tick all ones, balanced or all zeros on either stream.
ChannelSeriesLen == 5

ChannelTickSums == {-directionalBits, 0, directionalBits}

InitChannels ==
    /\ InitEngine
    /\ \E a \in SeriesOver(ChannelTickSums, ChannelSeriesLen),
          b \in SeriesOver(ChannelTickSums, ChannelSeriesLen) :
           /\ Len(a) = Len(b)
           /\ hIn = [fn |-> "series", cumSumA |-> a, cumSumB |-> b]
    /\ hOut = NoHarness

SpecChannels == InitChannels /\ [][NextDirectional]_vars

\* ------------------------------------------ harness: the dominance arbiter
StrengthGrid == {0, 100, 150, 160, 500, 550, 620, 630}

\* the channels whose strength varies in the harness; the others stay at 0
VariedChannels == {"correlated_high", "stick", "pearson"}

\* (switchMargin, keepBonus): the wow and mellow presets and the fixed pair of
\* the revision of updateDominant without presets
MarginPairs == {<<60, 30>>, <<120, 60>>, <<80, 40>>}

InitDominant ==
    /\ InitEngine
    /\ \E d \in Channels \cup {"baseline"}, v \in [VariedChannels -> StrengthGrid],
          mp \in MarginPairs :
           hIn = [fn |-> "strengths", dominant |-> d,
                  raw |-> [ch \in Channels |-> IF ch \in VariedChannels THEN v[ch] ELSE 0],
                  switchMargin |-> mp[1], keepBonus |-> mp[2]]
    /\ hOut = NoHarness

ApplyUpdateDominant ==
    /\ hIn.fn = "strengths" /\ hOut.fn = "none"
    /\ hOut' = [fn |-> "updateDominant",
                dominant |-> nextDominant(hIn.dominant, hIn.raw,
                                          hIn.switchMargin, hIn.keepBonus),
                dominance |-> nextDominance(0, hIn.raw, TickDtMs)]
    /\ UNCHANGED <<engineVars, demoVars, frameVars, lastOp, hIn>>

\* updateDominant called once more with the same strengths and preset
ApplyUpdateDominantAgain ==
    /\ hIn.fn = "strengths" /\ hOut.fn = "updateDominant"
    /\ hOut' = [fn |-> "updateDominantAgain",
                first |-> hOut.dominant,
                dominant |-> nextDominant(hOut.dominant, hIn.raw,
                                          hIn.switchMargin, hIn.keepBonus),
                dominance |-> nextDominance(hOut.dominance, hIn.raw, TickDtMs)]
    /\ UNCHANGED <<engineVars, demoVars, frameVars, lastOp, hIn>>

NextDominant == ApplyUpdateDominant \/ ApplyUpdateDominantAgain

SpecDominant == InitDominant /\ [][NextDominant]_vars

\* ------------------------------------------------ harness: strengthFromZ
\* z-scores in thousandths on both sides of 0 and of every threshold
ZGrid ==
    {-4000, -3800, -3500, -3000, -2200, -1800, -1000, 0, 1000, 1500, 1800, 1801, 2200,
     2500, 3000, 3499, 3500, 3800, 4000}

\* (zStart, zFull): the directional pair, the stick pair, and a third one
ThresholdPairs ==
    {<<STRENGTH_Z_START, STRENGTH_Z_FULL>>, <<STICK_Z_START, STICK_Z_FULL>>, <<1000, 1500>>}

InitStrength ==
    /\ InitEngine
    /\ \E z1 \in ZGrid, z2 \in ZGrid, pair \in ThresholdPairs :
           hIn = [fn |-> "strengthInput", z1 |-> z1, z2 |-> z2,
                  zStart |-> pair[1], zFull |-> pair[2]]
    /\ hOut = NoHarness

ApplyStrengthFromZ ==
    /\ hIn.fn = "strengthInput" /\ hOut.fn = "none"
    /\ hOut' = [fn |-> "strengthFromZ",
                s1 |-> strengthFromZ(hIn.z1, hIn.zStart, hIn.zFull),
                s2 |-> strengthFromZ(hIn.z2, hIn.zStart, hIn.zFull)]
    /\ UNCHANGED <<engineVars, demoVars, frameVars, lastOp, hIn>>

NextStrength == ApplyStrengthFromZ

SpecStrength == InitStrength /\ [][NextStrength]_vars

\* ------------------------------------- harness: the significance target
\* z-scores of one tick, in thousandths
SignificanceZ == {-3000, -2500, -2000, 0, 2000, 2500, 3000}

InitSignificance ==
    /\ InitEngine
    /\ \E zStick \in SignificanceZ, zPearson \in SignificanceZ, zHigh \in {0, 2000, 3000} :
           hIn = [fn |-> "significanceInput",
                  z |-> [correlated_high |-> zHigh, correlated_low |-> 0, anti_ab |-> 0,
                         anti_ba |-> 0, stick |-> zStick, pearson |-> zPearson]]
    /\ hOut = NoHarness

\* the target of sigEnergy of a tick with these z-scores and no demo boost
ApplyTargetSig ==
    /\ hIn.fn = "significanceInput" /\ hOut.fn = "none"
    /\ hOut' = [fn |-> "targetSig", targetSig |-> TargetSig(hIn, 0)]
    /\ UNCHANGED <<engineVars, demoVars, frameVars, lastOp, hIn>>

NextSignificance == ApplyTargetSig

SpecSignificance == InitSignificance /\ [][NextSignificance]_vars

\* ------------------------------------------ harness: the sample aggregator
\* Samples of aggregateBits bits each. The agreement and product series are
\* those signalTick holds after reseed and k ticks of one earlier sample; the
\* tick under test aggregates any pair of buffers and pushes its contributions.
AggregateHalfBits == 2

aggregateBits == 2 * AggregateHalfBits

AggregateBuffers == [1..aggregateBits -> {0, 1}]

EarlierSamples ==
    {<<[i \in 1..aggregateBits |-> 1], [i \in 1..aggregateBits |-> 1]>>,
     <<[i \in 1..aggregateBits |-> 1], [i \in 1..aggregateBits |-> IF i = 1 THEN 0 ELSE 1]>>,
     <<[i \in 1..aggregateBits |-> 1], [i \in 1..aggregateBits |-> 0]>>}

\* the pushes of cumSumAgree and cumSumXY and their trim
PushAggregates(series, bitsA, bitsB) ==
    LET agg == AggregateUpTo(bitsA, bitsB, 1, aggregateBits)
        N == aggregateBits
    IN [agg |-> agg,
        cumSumAgree |-> PushTrim(series.cumSumAgree, agg.agree - N \div 2),
        cumSumXY |-> PushTrim(series.cumSumXY, agg.sumXY)]

RECURSIVE SeriesAfter(_, _)
SeriesAfter(k, sample) ==
    IF k = 0 THEN [cumSumAgree |-> <<0>>, cumSumXY |-> <<0>>]
    ELSE LET r == PushAggregates(SeriesAfter(k - 1, sample), sample[1], sample[2])
         IN [cumSumAgree |-> r.cumSumAgree, cumSumXY |-> r.cumSumXY]

InitAggregates ==
    /\ InitEngine
    /\ \E a \in AggregateBuffers, b \in AggregateBuffers,
          k \in 0..(MAX_LOOKBACK + TRIM_MARGIN), sample \in EarlierSamples :
           hIn = [fn |-> "buffers", bitsA |-> a, bitsB |-> b,
                  series |-> SeriesAfter(k, sample)]
    /\ hOut = NoHarness

ApplyAggregates ==
    /\ hIn.fn = "buffers" /\ hOut.fn = "none"
    /\ hOut' = [fn |-> "recomputeAggregatesFromBuffers",
                res |-> PushAggregates(hIn.series, hIn.bitsA, hIn.bitsB)]
    /\ UNCHANGED <<engineVars, demoVars, frameVars, lastOp, hIn>>

NextAggregates == ApplyAggregates

SpecAggregates == InitAggregates /\ [][NextAggregates]_vars

\* ------------------------------------ harness: the exponential smoothers
\* (riseTau, fallTau) of dominance, of sigEnergy in the two presets, of the
\* rawRender strengths, and of sigEnergyRender
TauPairs == {<<1200, 1800>>, <<1000, 2000>>, <<2000, 3600>>, <<1800, 4000>>, <<600, 600>>}

\* a display frame, the tick length, a stall
SmoothDts == {16, 1000, 9500}

\* targets: strengths, envelopes and significance values in thousandths
SmoothTargets == {0, 345, 1000}

\* every smoothed value starts at 0
InitSmoothing ==
    /\ InitEngine
    /\ hIn = [fn |-> "smoothStart"]
    /\ hOut = [fn |-> "smoothed", value |-> 0]

\* value = value + (target - value) * (1 - Math.exp(-dtMs / tau))
SmoothStep(target, dt, pair) ==
    /\ hOut.fn = "smoothed"
    /\ LET tau == IF target > hOut.value THEN pair[1] ELSE pair[2]
       IN hOut' = [fn |-> "smoothed", value |-> Approach(hOut.value, target, SmoothK(dt, tau))]
    /\ hIn' = [fn |-> "smoothInput", current |-> hOut.value, target |-> target]
    /\ UNCHANGED <<engineVars, demoVars, frameVars, lastOp>>

NextSmoothing ==
    \E target \in SmoothTargets, dt \in SmoothDts, pair \in TauPairs : SmoothStep(target, dt, pair)

SpecSmoothing == InitSmoothing /\ [][NextSmoothing]_vars

\* ================================================================ properties

C3_OneSided ==
    hOut.fn = "findOptimalStartingPointAgreement" =>
        /\ hOut.res.z >= 0
        /\ (\A i \in 1..(Len(hIn.cumSum) - 1) : hIn.cumSum[i + 1] < hIn.cumSum[i]) =>
               (hOut.res.z = 0 /\ hOut.res.startIdx = hIn.currentIdx)

\* C4, as stated: whenever a candidate start exists, findOptimalStartingPoint
\* returns a start inside the candidate range whose |delta| / sqrt(bitSpan)
\* is at least that of every candidate, with z the signed value there; on
\* [0,1,2,3,4,5] (currentIdx 5, one bit per tick, lookback 5, minLen 1) it
\* returns start 0 and z = 5 / sqrt(5).
C4_ArgmaxInRange ==
    (/\ hOut.fn = "findOptimalStartingPoint"
     /\ hIn.currentIdx >= hIn.minLen /\ hIn.minLen <= hIn.lookback) =>
        LET cur == hIn.currentIdx
            range == Max(0, cur - hIn.lookback)..(cur - hIn.minLen)
            delta(s) == hIn.cumSum[cur + 1] - hIn.cumSum[s + 1]
            bitSpan(s) == (cur - s) * hIn.bitsPerTick
            best == hOut.res.startIdx
        IN /\ best \in range
           /\ \A s \in range :
                  delta(best) * delta(best) * bitSpan(s) >= delta(s) * delta(s) * bitSpan(best)
           /\ hOut.res.z = ZMilli(delta(best), bitSpan(best))
           /\ (hIn.cumSum = <<0, 1, 2, 3, 4, 5>> /\ hIn.bitsPerTick = 1
                  /\ hIn.lookback = 5 /\ hIn.minLen = 1) =>
                  (best = 0 /\ hOut.res.z = 2236)

\* C4, amended: the same, for the inputs in which some candidate start s has
\* series[cur] # series[s]; when every candidate has series[s] = series[cur]
\* the search returns startIdx = currentIdx and z = 0.
C4_ArgmaxWhenDeviating ==
    (/\ hOut.fn = "findOptimalStartingPoint"
     /\ hIn.currentIdx >= hIn.minLen /\ hIn.minLen <= hIn.lookback) =>
        LET cur == hIn.currentIdx
            range == Max(0, cur - hIn.lookback)..(cur - hIn.minLen)
            delta(s) == hIn.cumSum[cur + 1] - hIn.cumSum[s + 1]
            bitSpan(s) == (cur - s) * hIn.bitsPerTick
            best == hOut.res.startIdx
        IN IF \E s \in range : delta(s) # 0
           THEN /\ best \in range
                /\ \A s \in range :
                       delta(best) * delta(best) * bitSpan(s)
                           >= delta(s) * delta(s) * bitSpan(best)
                /\ hOut.res.z = ZMilli(delta(best), bitSpan(best))
                /\ (hIn.cumSum = <<0, 1, 2, 3, 4, 5>> /\ hIn.bitsPerTick = 1
                       /\ hIn.lookback = 5 /\ hIn.minLen = 1) =>
                       (best = 0 /\ hOut.res.z = 2236)
           ELSE best = cur /\ hOut.res.z = 0

\* C4 happens: the search has run on the fixture series and found start 0
C4_Witness ==
    /\ hOut.fn = "findOptimalStartingPoint"
    /\ hIn.cumSum = <<0, 1, 2, 3, 4, 5>> /\ hIn.bitsPerTick = 1
    /\ hIn.lookback = 5 /\ hIn.minLen = 1
    /\ hOut.res.startIdx = 0 /\ hOut.res.z = 2236

\* C2: on a tick, for every channel whose episode is active (peakZ above
\* EPISODE_Z_THRESHOLD): if |z| is at least 0.8 * peakZ the startTick is
\* unchanged; if |z| is below 0.8 * peakZ the episode resets, startTick
\* becoming the current index and peakZ becoming |z|, whatever the peak.
C2_EpisodeDecay ==
    [][pc = "ticks" =>
          \A ch \in Channels :
              episodes[ch].peakZ > EPISODE_Z_THRESHOLD =>
                  LET absZ == episodes'[ch].currentZ
                  IN IF absZ * 1000 >= episodes[ch].peakZ * EPISODE_DECAY_THRESHOLD
                     THEN episodes'[ch].startTick = episodes[ch].startTick
                     ELSE /\ episodes'[ch].startTick = Len(cumSumA') - 1
                          /\ episodes'[ch].peakZ = absZ]_vars

\* C5: a stored startTick keeps its meaning across trimming: on every tick
\* that neither starts nor resets a channel's episode, the distance from the
\* episode's startTick to the current index grows by exactly one tick.
C5_StartTickMeaning ==
    [][pc = "ticks" =>
          \A ch \in Channels :
              (/\ episodes[ch].peakZ > EPISODE_Z_THRESHOLD
               /\ episodes'[ch].peakZ >= episodes[ch].peakZ) =>
                  (Len(cumSumA') - 1) - episodes'[ch].startTick
                      = (Len(cumSumA) - 1) - episodes[ch].startTick + 1]_vars

C7_SignClasses ==
    hOut.fn = "directional" =>
        LET cur == hOut.currentIdx
            commonStart == Max(hOut.spA.startIdx, hOut.spB.startIdx)
            zA_seg == At(hIn.cumSumA, cur) - At(hIn.cumSumA, commonStart)
            zB_seg == At(hIn.cumSumB, cur) - At(hIn.cumSumB, commonStart)
        IN /\ hOut.dir.corrHighZ # 0 => (zA_seg > 0 /\ zB_seg > 0)
           /\ hOut.dir.corrLowZ # 0 => (zA_seg < 0 /\ zB_seg < 0)
           /\ hOut.dir.antiAbZ # 0 => (zA_seg > 0 /\ zB_seg < 0)
           /\ hOut.dir.antiBaZ # 0 => (zB_seg > 0 /\ zA_seg < 0)

\* C8: after a tick in which no channel's strength exceeds
\* DOMINANCE_THRESHOLD the dominant channel is baseline.
C8_BaselineFallback ==
    (lastOp = "tick" /\ \A ch \in Channels : rawLast[ch] <= DOMINANCE_THRESHOLD)
        => dominant = "baseline"

\* C9: right after reseed, sigEnergy, dominance and tickCount are 0, the
\* dominant is baseline, each cumulative series is exactly <<0>> and every
\* episode is in its never-started state.
C9_AfterReseed ==
    lastOp = "reseed" =>
        /\ sigEnergy = 0 /\ dominant = "baseline" /\ dominance = 0 /\ tickCount = 0
        /\ cumSumA = <<0>> /\ cumSumB = <<0>> /\ cumSumAgree = <<0>> /\ cumSumXY = <<0>>
        /\ \A ch \in Channels :
               episodes[ch] = [startTick |-> 0, peakZ |-> 0, currentZ |-> 0, strength |-> 0]

\* C9 happens: a reseed of an engine that has ticked and measured a signal
C9_Witness == lastOp = "reseed" /\ rawLast # ZeroRaw

C11_TickCap == frameTicks <= MAX_CATCHUP

\* C11 happens: a frame with more than 8 ticks due has ended after 8 ticks
C11_Witness ==
    pc = "idle" /\ lastOp = "tick" /\ dueTicks > MAX_CATCHUP /\ frameTicks = MAX_CATCHUP

\* C12: every tick leaves the four series with one common length of at most
\* MAX_LOOKBACK + TRIM_MARGIN entries; the entries kept are the newest ones of
\* the series before the tick, in order, and the last entry is the value the
\* tick appended (the previous last entry plus the tick's contribution).
C12_SeriesTrimmed ==
    [][pc = "ticks" =>
        \E sample \in Samples :
            LET agg == recomputeAggregatesFromBuffers(sample[1], sample[2])
                cap == MAX_LOOKBACK + TRIM_MARGIN
                n == Min(Len(cumSumA) + 1, cap)
                Kept(old, new, v) ==
                    /\ Len(new) = n
                    /\ \A i \in 1..(n - 1) : new[i] = old[i + Len(old) + 1 - n]
                    /\ new[n] = old[Len(old)] + v
            IN /\ Kept(cumSumA, cumSumA', agg.sumX)
               /\ Kept(cumSumB, cumSumB', agg.sumY)
               /\ Kept(cumSumAgree, cumSumAgree', agg.agree - sampleBits \div 2)
               /\ Kept(cumSumXY, cumSumXY', agg.sumXY)
    ]_vars

\* C12 happens: a tick has trimmed full series, dropping the entry of the reseed
C12_Witness ==
    /\ lastOp = "tick" /\ tickCount > MAX_LOOKBACK + TRIM_MARGIN
    /\ Len(cumSumA) = MAX_LOOKBACK + TRIM_MARGIN
    /\ cumSumA[1] # 0 /\ cumSumAgree[1] # 0

\* C13: each series is a running sum: it is <<0>> right after reseed; a tick
\* makes the last two entries differ by its contribution (sumX, sumY,
\* agree - N/2, sumXY) and leaves the difference of every other pair of
\* adjacent retained entries as it was before the tick, trimmed or not.
C13_RunningSums ==
    [][/\ lastOp' = "reseed" =>
            (cumSumA' = <<0>> /\ cumSumB' = <<0>> /\ cumSumAgree' = <<0>> /\ cumSumXY' = <<0>>)
       /\ pc = "ticks" =>
            \E sample \in Samples :
                LET agg == recomputeAggregatesFromBuffers(sample[1], sample[2])
                    Diffs(old, new, v) ==
                        LET n == Len(new)
                            dropped == Len(old) + 1 - n
                        IN /\ n >= 2 /\ dropped >= 0
                           /\ new[n] - new[n - 1] = v
                           /\ \A i \in 1..(n - 2) :
                                  new[i + 1] - new[i] = old[i + dropped + 1] - old[i + dropped]
                IN /\ Diffs(cumSumA, cumSumA', agg.sumX)
                   /\ Diffs(cumSumB, cumSumB', agg.sumY)
                   /\ Diffs(cumSumAgree, cumSumAgree', agg.agree - sampleBits \div 2)
                   /\ Diffs(cumSumXY, cumSumXY', agg.sumXY)
    ]_vars

\* C13 happens: full series whose retained steps differ from one another
C13_Witness ==
    /\ lastOp = "tick" /\ Len(cumSumXY) = MAX_LOOKBACK + TRIM_MARGIN
    /\ tickCount > MAX_LOOKBACK + TRIM_MARGIN
    /\ cumSumXY[2] - cumSumXY[1] # cumSumXY[3] - cumSumXY[2]
    /\ cumSumA[3] - cumSumA[2] # cumSumA[5] - cumSumA[4]

\* C14: when no candidate start exists (currentIdx < minLen, or minLen >
\* lookback) the single-stream, the agreement and the Pearson search each
\* return z = 0 and startIdx = currentIdx, and the Pearson search r = 0.
C14_NeutralWhenNoCandidate ==
    (/\ hOut.fn \in {"findOptimalStartingPoint", "findOptimalStartingPointAgreement",
                     "findOptimalStartingPointPearson"}
     /\ (hIn.currentIdx < hIn.minLen \/ hIn.minLen > hIn.lookback)) =>
        /\ hOut.res.z = 0 /\ hOut.res.startIdx = hIn.currentIdx
        /\ hOut.fn = "findOptimalStartingPointPearson" => hOut.res.r = 0

\* C14 happens: the Pearson search has run with minLen > lookback on series
\* long enough for minLen, whose last ticks are fully correlated
C14_Witness ==
    /\ hOut.fn = "findOptimalStartingPointPearson"
    /\ hIn.minLen > hIn.lookback /\ hIn.currentIdx >= hIn.minLen
    /\ hIn.cumSumXY[hIn.currentIdx + 1] - hIn.cumSumXY[hIn.currentIdx] = sampleBits
    /\ hIn.cumSumA[hIn.currentIdx + 1] = hIn.cumSumA[hIn.currentIdx]
    /\ hOut.res.z = 0 /\ hOut.res.startIdx = hIn.currentIdx

\* C15, as stated: whenever candidates exist, the single-stream and the
\* Pearson search return the smallest candidate index among those whose |z|
\* is maximal: every earlier candidate has a strictly smaller |z|, every
\* later one an |z| that is not greater.
C15_SmallestOfTies ==
    LET cur == hIn.currentIdx
        range == Max(0, cur - hIn.lookback)..(cur - hIn.minLen)
        best == hOut.res.startIdx
    IN /\ (hOut.fn = "findOptimalStartingPoint" /\ range # {}) =>
              LET d(s) == hIn.cumSum[cur + 1] - hIn.cumSum[s + 1]
                  span(s) == (cur - s) * hIn.bitsPerTick
              IN /\ best \in range
                 /\ \A s \in range :
                        /\ s < best => d(s) * d(s) * span(best) < d(best) * d(best) * span(s)
                        /\ s > best => d(s) * d(s) * span(best) <= d(best) * d(best) * span(s)
       /\ (hOut.fn = "findOptimalStartingPointPearson" /\ range # {}) =>
              LET span(s) == (cur - s) * hIn.bitsPerTick
                  z(s) == FisherZ(PearsonR(hIn.cumSumXY[cur + 1] - hIn.cumSumXY[s + 1],
                                           hIn.cumSumA[cur + 1] - hIn.cumSumA[s + 1],
                                           hIn.cumSumB[cur + 1] - hIn.cumSumB[s + 1],
                                           span(s)), span(s))
              IN /\ best \in range
                 /\ \A s \in range :
                        /\ s < best => Abs(z(s)) < Abs(z(best))
                        /\ s > best => Abs(z(s)) <= Abs(z(best))

\* C15, amended: the same when some candidate has a non-zero z; when every
\* candidate's z is 0 no candidate replaces the initial best and the search
\* returns startIdx = currentIdx with z = 0.
C15_SmallestOfNonZeroTies ==
    LET cur == hIn.currentIdx
        range == Max(0, cur - hIn.lookback)..(cur - hIn.minLen)
        best == hOut.res.startIdx
    IN /\ (hOut.fn = "findOptimalStartingPoint" /\ range # {}) =>
              LET d(s) == hIn.cumSum[cur + 1] - hIn.cumSum[s + 1]
                  span(s) == (cur - s) * hIn.bitsPerTick
              IN IF \E s \in range : d(s) # 0
                 THEN /\ best \in range
                      /\ \A s \in range :
                             /\ s < best =>
                                    d(s) * d(s) * span(best) < d(best) * d(best) * span(s)
                             /\ s > best =>
                                    d(s) * d(s) * span(best) <= d(best) * d(best) * span(s)
                 ELSE best = cur /\ hOut.res.z = 0
       /\ (hOut.fn = "findOptimalStartingPointPearson" /\ range # {}) =>
              LET span(s) == (cur - s) * hIn.bitsPerTick
                  z(s) == FisherZ(PearsonR(hIn.cumSumXY[cur + 1] - hIn.cumSumXY[s + 1],
                                           hIn.cumSumA[cur + 1] - hIn.cumSumA[s + 1],
                                           hIn.cumSumB[cur + 1] - hIn.cumSumB[s + 1],
                                           span(s)), span(s))
              IN IF \E s \in range : z(s) # 0
                 THEN /\ best \in range
                      /\ \A s \in range :
                             /\ s < best => Abs(z(s)) < Abs(z(best))
                             /\ s > best => Abs(z(s)) <= Abs(z(best))
                 ELSE best = cur /\ hOut.res.z = 0 /\ hOut.res.r = 0

\* C15 happens: two candidates of the single-stream search tie on a non-zero
\* |z| (2 / sqrt(4) and 1 / sqrt(1)) and the earlier one is returned
C15_Witness ==
    /\ hOut.fn = "findOptimalStartingPoint"
    /\ hIn.cumSum = <<0, 1, 1, 1, 2>> /\ hIn.bitsPerTick = 1
    /\ hIn.lookback = 5 /\ hIn.minLen = 1
    /\ hOut.res.startIdx = 0 /\ hOut.res.z = 1000

\* C16: for a fixed pair zStart < zFull, strengthFromZ lies in [0, 1], is 0
\* for |z| <= zStart, is 1 for |z| >= zFull, and does not decrease when |z|
\* grows.
C16_StrengthMonotone ==
    hOut.fn = "strengthFromZ" =>
        /\ hOut.s1 >= 0 /\ hOut.s1 <= 1000
        /\ Abs(hIn.z1) <= hIn.zStart => hOut.s1 = 0
        /\ Abs(hIn.z1) >= hIn.zFull => hOut.s1 = 1000
        /\ Abs(hIn.z1) <= Abs(hIn.z2) => hOut.s1 <= hOut.s2

\* C16 happens: a negative and a larger positive z between the thresholds
C16_Witness ==
    /\ hOut.fn = "strengthFromZ"
    /\ hIn.z1 < 0 /\ hIn.z2 > 0 /\ Abs(hIn.z1) < hIn.z2
    /\ 0 < hOut.s1 /\ hOut.s1 < hOut.s2 /\ hOut.s2 < 1000

\* C20: after every tick, a channel whose episode is active (peakZ above
\* EPISODE_Z_THRESHOLD) has the strength strengthFromZ(max(|z|, 0.7 * peakZ)),
\* which is at least strengthFromZ(0.7 * peakZ); a channel whose episode is
\* not active has the strength strengthFromZ(|z|).
C20_StrengthFloor ==
    lastOp = "tick" =>
        \A ch \in Channels :
            LET ep == episodes[ch]
                floorZ == (ep.peakZ * EPISODE_FLOOR) \div 1000
            IN IF ep.peakZ > EPISODE_Z_THRESHOLD
               THEN /\ ep.strength = strengthFromZ(Max(ep.currentZ, floorZ),
                                                   STRENGTH_Z_START, STRENGTH_Z_FULL)
                    /\ ep.strength >= strengthFromZ(floorZ, STRENGTH_Z_START, STRENGTH_Z_FULL)
               ELSE ep.strength = strengthFromZ(ep.currentZ, STRENGTH_Z_START, STRENGTH_Z_FULL)

\* C20 happens: an active episode whose |z| has dipped below 0.7 * peakZ keeps
\* a strength above the one of its |z|
C20_Witness ==
    /\ lastOp = "tick"
    /\ \E ch \in Channels :
           /\ episodes[ch].peakZ > EPISODE_Z_THRESHOLD
           /\ episodes[ch].currentZ * 1000 < episodes[ch].peakZ * EPISODE_FLOOR
           /\ episodes[ch].strength
                  > strengthFromZ(episodes[ch].currentZ, STRENGTH_Z_START, STRENGTH_Z_FULL)

\* C18, as stated: in every step other than reseed that changes the dominant
\* channel, the step is a tick and the change satisfies updateDominant's switch
\* condition on the tick's strengths: the new dominant is a channel of the
\* greatest strength, above DOMINANCE_THRESHOLD, and either the old dominant
\* is baseline or that strength exceeds the old dominant's strength plus
\* keepBonus plus switchMargin.
C18_OnlyArbiter ==
    [][(dominant' # dominant /\ lastOp' # "reseed") =>
          /\ pc = "ticks"
          /\ LET raw == rawLast'
                 top == MaxOf({raw[ch] : ch \in Channels})
                 p == preset(lightMode)
             IN /\ dominant' \in Channels
                /\ raw[dominant'] = top /\ top > DOMINANCE_THRESHOLD
                /\ dominant # "baseline" =>
                       top > raw[dominant] + p.keepBonus + p.switchMargin
    ]_vars

\* C18, amended: the same, except that a boot frame forces the dominant to
\* baseline and the end of a frame in demo mode forces it to the demo channel
\* or, in the anomaly segment and at the end of the demo, to baseline.
C18_ArbiterBootOrDemo ==
    [][(dominant' # dominant /\ lastOp' # "reseed") =>
          \/ /\ pc = "ticks"
             /\ LET raw == rawLast'
                    top == MaxOf({raw[ch] : ch \in Channels})
                    p == preset(lightMode)
                IN /\ dominant' \in Channels
                   /\ raw[dominant'] = top /\ top > DOMINANCE_THRESHOLD
                   /\ dominant # "baseline" =>
                          top > raw[dominant] + p.keepBonus + p.switchMargin
          \/ pc = "idle" /\ lastOp' = "step" /\ bootLock' /\ dominant' = "baseline"
          \/ pc = "post" /\ demoMode /\ dominant' \in {demoChannel, "baseline"}
    ]_vars

\* C18 happens: with no demo frame run since the reseed, a tick has left a
\* dominant channel other than baseline
C18_Witness ==
    /\ lastOp = "tick" /\ ~demoMode /\ demoIndex = 0 /\ demoElapsed = 0
    /\ dominant # "baseline" /\ rawLast[dominant] > DOMINANCE_THRESHOLD

\* C19: a frame that runs while booting processes no tick: it leaves tickCount,
\* the four series and the episodes unchanged, and it ends with dominant =
\* baseline, dominance = 0, coherence = 0 and sigEnergy = 0.
C19_BootSuppressed ==
    [][/\ (pc = "idle" /\ lastOp' = "step" /\ bootLock') =>
            /\ pc' = "post"
            /\ UNCHANGED <<tickCount, cumSumA, cumSumB, cumSumAgree, cumSumXY, episodes>>
       /\ (pc = "post" /\ bootLock) =>
            /\ UNCHANGED <<tickCount, cumSumA, cumSumB, cumSumAgree, cumSumXY, episodes>>
            /\ dominant' = "baseline" /\ dominance' = 0
            /\ coherence' = 0 /\ sigEnergy' = 0
    ]_vars

\* C21: the p-values of stick and pearson are corrected before the minimum
\* over the channels is taken: when one of the two is the only channel with a
\* non-zero z and its uncorrected p-value would put the target of sigEnergy
\* strictly between 0 and 1, the target of the tick is not that uncorrected
\* value.
C21_SearchCorrection ==
    hOut.fn = "targetSig" =>
        \A ch \in {"stick", "pearson"} :
            LET uncorrected ==
                    clamp01(((Min(6000, surprisalFromZ(hIn.z[ch])) - 800) * 1000) \div 4800)
            IN (/\ hIn.z[ch] # 0
                /\ \A other \in Channels \ {ch} : hIn.z[other] = 0
                /\ uncorrected > 0 /\ uncorrected < 1000) =>
                   hOut.targetSig # uncorrected

C23_NoTickFrameKeepsState ==
    [][/\ (pc = "idle" /\ lastOp' = "step" /\ ~bootLock' /\ ~demoMode /\ dueTicks' = 0) =>
            /\ pc' = "post" /\ ticksLeft' = 0
            /\ UNCHANGED <<dominant, dominance, coherence, sigEnergy, rawLast, tickCount,
                           cumSumA, cumSumB, cumSumAgree, cumSumXY, episodes>>
       /\ (pc = "post" /\ ~bootLock /\ ~demoMode /\ dueTicks = 0) =>
            /\ pc' = "idle"
            /\ UNCHANGED <<dominant, dominance, coherence, sigEnergy, rawLast, tickCount,
                           cumSumA, cumSumB, cumSumAgree, cumSumXY, episodes>>
    ]_vars

\* C23 happens: a frame without a tick has ended on an engine that has ticked
\* and holds a dominant channel other than baseline
C23_Witness ==
    /\ pc = "idle" /\ lastOp = "step" /\ ~bootLock /\ ~demoMode /\ dueTicks = 0
    /\ tickCount > 0 /\ dominant # "baseline" /\ sigEnergy > 0

\* C29: after boot, in a frame in which the cap of MAX_CATCHUP ticks does not
\* bind, the number of ticks run is floor(tickBudget + updatesPerSec * dt),
\* every tick raises tickCount by one, the budget left is the budget plus the
\* frame's share minus the ticks run, and the frame ends with
\* 0 <= tickBudget < 1.
C29_BudgetConserved ==
    [][/\ (pc = "idle" /\ lastOp' = "step" /\ ~bootLock' /\ dueTicks' <= MAX_CATCHUP) =>
            /\ dueTicks' = (tickBudget + updatesPerSec * dtMs') \div 1000
            /\ ticksLeft' = dueTicks'
            /\ tickBudget' = tickBudget + updatesPerSec * dtMs' - 1000 * dueTicks'
            /\ tickCount' = tickCount
       /\ pc = "ticks" =>
            /\ tickCount' = tickCount + 1 /\ ticksLeft' = ticksLeft - 1
            /\ tickBudget' = tickBudget
       /\ (pc = "post" /\ ~bootLock /\ dueTicks <= MAX_CATCHUP) =>
            /\ frameTicks = dueTicks /\ ticksLeft = 0
            /\ tickCount' = tickCount
            /\ tickBudget' = tickBudget /\ tickBudget' >= 0 /\ tickBudget' < 1000
    ]_vars

\* C29 happens: a frame has run two ticks and carries a fraction of a tick over
C29_Witness ==
    /\ pc = "idle" /\ lastOp = "tick" /\ ~bootLock
    /\ dueTicks = 2 /\ frameTicks = 2 /\ tickBudget > 0 /\ tickBudget < 1000

\* C24: a demo started with D shows the channels of DEMO_CHANNELS in order,
\* demoIndex counting them: while the demo runs demoIndex moves only from a
\* segment to the next one, when the segment's 5000 ms have elapsed, the
\* channel shown is DEMO_CHANNELS[demoIndex] with the Pearson direction
\* alternating from +1, the segment after the last channel forces baseline,
\* and demoMode falls only by a key, a reseed, or at the end of that last
\* segment; under frames that keep coming every demo ends.
C24_DemoSequence ==
    /\ [](demoMode =>
            /\ demoIndex \in 0..Len(DEMO_CHANNELS)
            /\ demoIndex < Len(DEMO_CHANNELS) =>
                   /\ demoChannel = DEMO_CHANNELS[demoIndex + 1]
                   /\ demoPearsonDir = (IF demoIndex % 2 = 0 THEN 1 ELSE -1))
    /\ [][/\ (demoMode /\ demoMode') =>
                /\ demoIndex' \in {demoIndex, demoIndex + 1}
                /\ demoIndex' = demoIndex + 1 =>
                       (pc = "post" /\ demoElapsed + dtMs >= DEMO_DURATION_MS)
                /\ (pc = "post" /\ demoIndex = Len(DEMO_CHANNELS)) =>
                       (dominant' = "baseline" /\ dominance' = 0)
                /\ (pc = "post" /\ demoIndex < Len(DEMO_CHANNELS)) =>
                       dominant' = DEMO_CHANNELS[demoIndex + 1]
          /\ (demoMode /\ ~demoMode') =>
                \/ lastOp' \in {"key", "reseed"}
                \/ /\ pc = "post" /\ demoIndex = Len(DEMO_CHANNELS)
                   /\ demoIndex' = Len(DEMO_CHANNELS) + 1
          /\ (~demoMode /\ demoMode') =>
                /\ lastOp' = "key" /\ demoIndex' = 0
                /\ demoChannel' = DEMO_CHANNELS[1] /\ demoPearsonDir' = 1
      ]_vars
    /\ (demoMode ~> ~demoMode)

\* C24 happens: a demo has run through the six channels and the anomaly
\* segment and has ended by itself
C24_Witness ==
    /\ ~demoMode /\ lastOp # "key" /\ demoIndex = Len(DEMO_CHANNELS) + 1
    /\ demoChannel = "pearson" /\ demoPearsonDir = -1 /\ dominant = "baseline"

\* C25: whenever demo mode ends (completion, key D, Escape or a reseed), the
\* state right after has dominant = baseline, dominance = 0, demoBoost = 0
\* and demoPearsonBoost = 0
C25_DemoEndsAtBaseline ==
    [][(demoMode /\ ~demoMode') =>
          /\ dominant' = "baseline" /\ dominance' = 0
          /\ demoBoost' = 0 /\ demoPearsonBoost' = 0]_vars

\* C26: the dominance transition does not oscillate under constant input: a
\* second call of updateDominant with the same strengths and preset leaves
\* the dominant channel as the first call set it
C26_SecondCallKeepsDominant ==
    hOut.fn = "updateDominantAgain" => hOut.dominant = hOut.first

\* the first call switched from one channel to another, then the second call ran
C26_Witness ==
    /\ hOut.fn = "updateDominantAgain"
    /\ hIn.dominant # "baseline" /\ hOut.first \notin {"baseline", hIn.dominant}

\* C27: at every tick at most one of the four directional z-values is
\* non-zero, and a non-zero value is min(|zA|, |zB|) with both z recomputed
\* over the common window, which is at least MIN_SEGMENT_LEN ticks long
C27_OneDirectionalChannel ==
    hOut.fn = "directional" =>
        LET cur == hOut.currentIdx
            d == hOut.dir
            zs == <<d.corrHighZ, d.corrLowZ, d.antiAbZ, d.antiBaZ>>
            commonStart == Max(hOut.spA.startIdx, hOut.spB.startIdx)
            bitSpan == (cur - commonStart) * directionalBits
            zA == ZMilli(At(hIn.cumSumA, cur) - At(hIn.cumSumA, commonStart), bitSpan)
            zB == ZMilli(At(hIn.cumSumB, cur) - At(hIn.cumSumB, commonStart), bitSpan)
        IN /\ Cardinality({i \in 1..4 : zs[i] # 0}) <= 1
           /\ \A i \in 1..4 :
                  zs[i] # 0 => /\ cur - commonStart >= MIN_SEGMENT_LEN
                               /\ zs[i] = Min(Abs(zA), Abs(zB))

\* anti_ab alone is non-zero, the two searches having found different starts
\* and the two streams different |z| over the common window
C27_Witness ==
    /\ hOut.fn = "directional"
    /\ hOut.dir.antiAbZ > 0 /\ hOut.spA.startIdx # hOut.spB.startIdx
    /\ LET cur == hOut.currentIdx
           commonStart == Max(hOut.spA.startIdx, hOut.spB.startIdx)
       IN Abs(At(hIn.cumSumA, cur) - At(hIn.cumSumA, commonStart))
              # Abs(At(hIn.cumSumB, cur) - At(hIn.cumSumB, commonStart))

\* C28: after every tick each episode's currentZ is the |z| measured in that
\* tick and an active episode (peakZ > EPISODE_Z_THRESHOLD) has peakZ >=
\* currentZ; from one tick to the next peakZ stays, rises to the new |z|, or,
\* only at a reset, is replaced by the new |z|
C28_EpisodePeak ==
    /\ [](lastOp = "tick" =>
             LET m == Measure(cumSumA, cumSumB, cumSumAgree, cumSumXY)
             IN \A ch \in Channels :
                    /\ episodes[ch].currentZ = Abs(m.z[ch])
                    /\ episodes[ch].peakZ > EPISODE_Z_THRESHOLD =>
                           episodes[ch].peakZ >= episodes[ch].currentZ)
    /\ [][lastOp' = "tick" =>
             \A ch \in Channels :
                 LET old == episodes[ch]
                     new == episodes'[ch]
                 IN \/ new.peakZ = old.peakZ
                    \/ /\ new.peakZ = new.currentZ /\ new.peakZ > old.peakZ
                       /\ new.currentZ > EPISODE_Z_THRESHOLD
                    \/ /\ new.peakZ = new.currentZ /\ new.peakZ < old.peakZ
                       /\ old.peakZ > EPISODE_Z_THRESHOLD
                       /\ new.currentZ <= EPISODE_Z_THRESHOLD
                       /\ new.currentZ * 1000 < old.peakZ * EPISODE_DECAY_THRESHOLD
                       /\ new.startTick = Len(cumSumA') - 1
       ]_vars

\* a tick has just reset an episode that had been active
C28_Witness ==
    /\ lastOp = "tick"
    /\ \E ch \in Channels :
           /\ episodes[ch].startTick = Len(cumSumA) - 1 /\ episodes[ch].startTick > 0
           /\ episodes[ch].peakZ <= EPISODE_Z_THRESHOLD
           /\ episodes[ch].peakZ = episodes[ch].currentZ

\* C30: the aggregates of a sample of N bits satisfy 0 <= onesA, onesB,
\* agree <= N, sumX = 2 * onesA - N, sumY = 2 * onesB - N and
\* sumXY = 2 * agree - N; consequently every difference of two entries of
\* cumSumXY is twice the difference of the same entries of cumSumAgree
C30_AggregateIdentities ==
    hOut.fn = "recomputeAggregatesFromBuffers" =>
        LET agg == hOut.res.agg
            N == aggregateBits
            cumAgree == hOut.res.cumSumAgree
            cumXY == hOut.res.cumSumXY
        IN /\ agg.onesA \in 0..N /\ agg.onesB \in 0..N /\ agg.agree \in 0..N
           /\ agg.sumX = 2 * agg.onesA - N
           /\ agg.sumY = 2 * agg.onesB - N
           /\ agg.sumXY = 2 * agg.agree - N
           /\ Len(cumXY) = Len(cumAgree)
           /\ \A i, j \in 1..Len(cumXY) :
                  cumXY[i] - cumXY[j] = 2 * (cumAgree[i] - cumAgree[j])

\* a sample whose streams partly agree, pushed on series that the push trims
C30_Witness ==
    /\ hOut.fn = "recomputeAggregatesFromBuffers"
    /\ hOut.res.agg.agree = 1 /\ hOut.res.agg.onesA = 2 /\ hOut.res.agg.onesB = 3
    /\ Len(hIn.series.cumSumXY) = MAX_LOOKBACK + TRIM_MARGIN
    /\ hOut.res.cumSumXY[1] # 0

====
